---- MODULE Spec2Model ----
(***************************************************************************)
(* A model of the ETL pipeline: the orchestrator ETLPipeline (src/main.py)  *)
(* and the API extractor APIExtractor (src/extract/api_extractor.py).       *)
(*                                                                         *)
(* Several state machines share the module.  Spec is one call of           *)
(* ETLPipeline.run; SpecApi is one call of APIExtractor.extract against a   *)
(* nondeterministic HTTP source; SpecFn is one call of a method that        *)
(* interprets a response; SpecLoad is DatabaseLoader.load                   *)
(* (src/load/db_loader.py) against a relational sink; SpecTf is a call of   *)
(* an operation of DataTransformer (src/transform/transformer.py), or of   *)
(* ETLPipeline.transform; SpecCsv is a call of an operation of CSVExtractor *)
(* (src/extract/csv_extractor.py); SpecDag is one run of the scheduled DAG  *)
(* (airflow/dags/etl_daily.py).  Each machine leaves the variables of the   *)
(* others untouched.                                                        *)
(***************************************************************************)
EXTENDS Integers, Sequences, FiniteSets, TLC

(***************************************************************************)
(* Bounds of the model.                                                     *)
(***************************************************************************)
\* number of CSV files the configuration may list (extract.csv.files)
MaxFiles == 2
\* rows a single extractor call may return
MaxRows == 1
\* largest max_retries the API extractor is constructed with
MaxRetries == 3
\* page fetches one extraction may start before the model stops following it
MaxFetches == 3
\* data rows of a CSV file
MaxCsvRows == 2
\* records one API response may carry
MaxRecs == 1
\* rows of the record set handed to DatabaseLoader.load
MaxDfRows == 2
\* calls of load with the same arguments that are followed
MaxLoads == 2
\* rows of the record set handed to a DataTransformer operation
MaxTfRows == 3

(***************************************************************************)
(* Python exceptions.  ExcParent is the base class of each class that the   *)
(* modelled code raises or names in an except clause.                       *)
(***************************************************************************)
ExcClasses ==
    {"BaseException", "Exception", "OSError", "FileNotFoundError",
     "ValueError", "JSONDecodeError", "AttributeError", "TypeError",
     "RequestException", "Timeout", "ConnectionError", "HTTPError",
     "SQLAlchemyError"}

ExcParent(c) ==
    CASE c = "Exception"         -> "BaseException"
      [] c = "OSError"           -> "Exception"
      [] c = "FileNotFoundError" -> "OSError"
      [] c = "ValueError"        -> "Exception"
      [] c = "JSONDecodeError"   -> "ValueError"
      [] c = "AttributeError"    -> "Exception"
      [] c = "TypeError"         -> "Exception"
      [] c = "RequestException"  -> "OSError"
      [] c = "Timeout"           -> "RequestException"
      [] c = "ConnectionError"   -> "RequestException"
      [] c = "HTTPError"         -> "RequestException"
      [] c = "SQLAlchemyError"   -> "Exception"
      [] OTHER                   -> "object"

RECURSIVE IsSubclass(_, _)
\* issubclass(c, base): base is c or one of its ancestors
IsSubclass(c, base) ==
    IF c = base THEN TRUE
    ELSE IF c \notin ExcClasses THEN FALSE
    ELSE IsSubclass(ExcParent(c), base)

\* what each collaborator of the orchestrator may raise
CsvErrors       == {"FileNotFoundError", "ValueError"}
ApiErrors       == {"Timeout", "ConnectionError", "HTTPError",
                    "JSONDecodeError", "AttributeError"}
CombineErrors   == {"OSError"}
TransformErrors == {"ValueError", "OSError"}
LoadErrors      == {"ValueError", "SQLAlchemyError"}

(***************************************************************************)
(* State.                                                                   *)
(***************************************************************************)
VARIABLES
    \* ---- ETLPipeline.run ----
    source,        \* argument of run: "None", "csv" or "api"
    csvFiles,      \* number of files in config extract.csv.files
    pc,            \* position of run
    fileIdx,       \* files of the CSV loop already taken
    all_data,      \* extract's list of frames: [src, file, rows]
    raw_data,      \* what extract returned: [kind, rows], kind "unset",
                   \* "None" or "frame"
    transformed,   \* what transform returned: [kind, rows], kind "unset"
                   \* or "frame"
    rows_loaded,   \* what load returned: -1 while unset
    events,        \* stage calls and their outcomes, in order
    log,           \* messages the orchestrator logged
    csvReturned,   \* rows of each frame CSVExtractor.extract returned
    apiReturned,   \* rows api_extractor.extract returned: -1 unset, -2 raised
    sinkWrites,    \* load calls that reached the sink
    raisedAt,      \* where an exception left a handler-less region
    result,        \* outcome of run: "none", "True", "False", "propagated"
    \* ---- APIExtractor.extract ----
    max_retries,   \* self.max_retries
    apc,           \* position of extract
    params,        \* query parameters of the request being made
    attempt,       \* loop variable of _make_request
    pageRequests,  \* requests issued by the current _make_request call
    fetches,       \* _make_request calls started by this extract call
    waited,        \* time slept by the current _make_request call
    lastWait,      \* the most recent time.sleep argument, 0 if none
    lastErr,       \* the exception `e` bound in the except clause of
                   \* _make_request, "none" outside the clause
    response,      \* the response _make_request returned
    pageData,      \* the per-page lists _parse_response returned
    api_all_data,  \* extract's accumulator all_data
    apiResult,     \* "none", "returned" or the class of the raised exception
    failedAt,      \* which step raised: "none", "fetch" or "parse"
    returned,      \* the list extract returned: [some, data]
    pagedT,        \* total_pages of a source that has so far answered request
                   \* N with page = N and nothing else; -1 once it has not
    \* ---- one call of a response-interpreting method of APIExtractor ----
    fnBody,        \* the JSON body of the response passed in
    fnNo,          \* the number of the request the response answers
    fnCur,         \* current_params passed to _get_next_page_params
    fnCalled,      \* "none", or the method that was called
    fnParsed,      \* what _parse_response returned or raised
    fnHasNext,     \* what _has_next_page returned
    fnParams,      \* what _get_next_page_params returned
    \* ---- DatabaseLoader.load and the sink ----
    lpc,           \* position inside load
    df,            \* the record set: a sequence of rows [id, name]
    strategy,      \* the strategy argument
    create_index,  \* the create_index argument: a sequence of column names
    wantKeys,      \* the key columns the caller of load wants used
    key_columns,   \* key_columns inside _load_upsert
    tables,        \* the sink: table name -> [exists, rows, unique]
    indexes,       \* the index names that exist in the sink
    txOpen,        \* an engine.begin() transaction is open
    txSnapshot,    \* the sink as the open transaction found it
    loads,         \* calls of load made so far
    loadResults,   \* per finished call: [res, at, rows]
    tablesBefore,  \* the sink's tables when the running call began
    indexesBefore, \* the sink's indexes when the running call began
    fault,         \* the sink failed a statement it could have executed
    \* ---- one operation of DataTransformer ----
    tfOp,          \* the operation called
    tfArgs,        \* its arguments other than the record set
    tfDf,          \* the caller's record set, the object passed as df
    tfGiven,       \* the caller's record set as it was before the call
    tfCalls,       \* calls made so far
    tfOuts,        \* per call: [raised, frame, results]
    \* ---- one operation of CSVExtractor ----
    cxOp,          \* the operation called
    cxArgs,        \* its arguments and the extractor's settings
    cxFiles,       \* the file system: path -> [state, rows]
    cxDf,          \* the caller's record set passed to validate_schema
    cxReads,       \* the reads of files made so far, in order
    cxOut,         \* what the call did: [done, raised, rows, value]
    \* ---- one run of the scheduled DAG ----
    taskState,     \* task id -> state of its task instance
    tries          \* task id -> attempts started so far

runVars == <<source, csvFiles, pc, fileIdx, all_data, raw_data, transformed,
             rows_loaded, events, log, csvReturned, apiReturned, sinkWrites,
             raisedAt, result>>

apiVars == <<max_retries, apc, params, attempt, pageRequests, fetches,
             waited, lastWait, lastErr, response, pageData, api_all_data,
             apiResult, failedAt, returned, pagedT>>

fnVars == <<fnBody, fnNo, fnCur, fnCalled, fnParsed, fnHasNext, fnParams>>

loadVars == <<lpc, df, strategy, create_index, wantKeys, key_columns, tables,
              indexes, txOpen, txSnapshot, loads, loadResults, tablesBefore,
              indexesBefore, fault>>

\* what a step of one component leaves alone
tfVars == <<tfOp, tfArgs, tfDf, tfGiven, tfCalls, tfOuts>>

csvVars == <<cxOp, cxArgs, cxFiles, cxDf, cxReads, cxOut>>

dagVars == <<taskState, tries>>

notRun == <<apiVars, fnVars, loadVars, tfVars, csvVars, dagVars>>
notApi == <<runVars, fnVars, loadVars, tfVars, csvVars, dagVars>>
notFn == <<runVars, apiVars, loadVars, tfVars, csvVars, dagVars>>
notLoad == <<runVars, apiVars, fnVars, tfVars, csvVars, dagVars>>
notTf == <<runVars, apiVars, fnVars, loadVars, csvVars, dagVars>>
notCsv == <<runVars, apiVars, fnVars, loadVars, tfVars, dagVars>>
notDag == <<runVars, apiVars, fnVars, loadVars, tfVars, csvVars>>

vars == <<runVars, apiVars, fnVars, loadVars, tfVars, csvVars, dagVars>>

(***************************************************************************)
(* ETLPipeline (src/main.py).                                               *)
(***************************************************************************)
Sources == {"None", "csv", "api"}

\* `except Exception` of run (main.py:94)
RunCatchesNarrow(e) == IsSubclass(e, "ValueError")
RunCatches(e) == IsSubclass(e, "Exception")

\* `except Exception` around the CSV block of extract (main.py:127)
ExtractCsvCatchesNarrow(e) == IsSubclass(e, "FileNotFoundError")
ExtractCsvCatches(e) == IsSubclass(e, "Exception")

\* `except Exception` around the API block of extract (main.py:151)
ExtractApiCatches(e) == IsSubclass(e, "Exception")

\* `source in [None, 'csv']` and `source in [None, 'api']`
CsvSelected(s) == s \in {"None", "csv"}
ApiSelected(s) == s \in {"None", "api"}

RECURSIVE SumRows(_)
\* len(pd.concat(frames, ignore_index=True))
SumRows(frames) ==
    IF frames = <<>> THEN 0
    ELSE Head(frames).rows + SumRows(Tail(frames))

\* `raw_data is None or raw_data.empty` (main.py:68)
NoDataStrict(d) == d.kind = "None"
NoData(d) == d.kind = "None" \/ d.rows = 0

\* an exception e reaches run's handler, or leaves run
RunFails(e, where) ==
    /\ raisedAt' = where
    /\ IF RunCatches(e)
       THEN /\ log' = log \cup {"pipeline_failed"}
            /\ result' = "False"
       ELSE /\ log' = log
            /\ result' = "propagated"
    /\ pc' = "done"

InitRun ==
    /\ source \in Sources
    /\ csvFiles \in 0..MaxFiles
    /\ pc = "ready"
    /\ fileIdx = 0
    /\ all_data = <<>>
    /\ raw_data = [kind |-> "unset", rows |-> 0]
    /\ transformed = [kind |-> "unset", rows |-> 0]
    /\ rows_loaded = -1
    /\ events = <<>>
    /\ log = {}
    /\ csvReturned = <<>>
    /\ apiReturned = -1
    /\ sinkWrites = 0
    /\ raisedAt = "none"
    /\ result = "none"

\* run is entered and calls extract (main.py:60-66, 108-113)
RunStart ==
    /\ pc = "ready"
    /\ events' = Append(events, "extract.call")
    /\ pc' = IF CsvSelected(source) THEN "extract_csv" ELSE "extract_api"
    /\ UNCHANGED <<source, csvFiles, fileIdx, all_data, raw_data, transformed,
                   rows_loaded, log, csvReturned, apiReturned, sinkWrites,
                   raisedAt, result>>
    /\ UNCHANGED notRun

\* one iteration of the CSV loop whose extract call returns (main.py:119-123)
CsvFileRead ==
    /\ pc = "extract_csv"
    /\ fileIdx < csvFiles
    /\ \E n \in 0..MaxRows :
        /\ all_data' = Append(all_data,
                              [src |-> "csv", file |-> fileIdx + 1, rows |-> n])
        /\ csvReturned' = Append(csvReturned, n)
    /\ fileIdx' = fileIdx + 1
    /\ UNCHANGED <<source, csvFiles, pc, raw_data, transformed, rows_loaded,
                   events, log, apiReturned, sinkWrites, raisedAt, result>>
    /\ UNCHANGED notRun

\* as AfterCsv, were the API block inside the try of the CSV block
AfterCsvCombine(s) == "combine"

\* where extract goes once the CSV block is left
AfterCsv(s) == IF ApiSelected(s) THEN "extract_api" ELSE "combine"

\* one iteration of the CSV loop whose extract call raises
\* (main.py:120, 127-128)
CsvFileFails ==
    /\ pc = "extract_csv"
    /\ fileIdx < csvFiles
    /\ \E e \in CsvErrors :
        IF ExtractCsvCatches(e)
        THEN /\ log' = log \cup {"csv_failed"}
             /\ pc' = AfterCsv(source)
             /\ UNCHANGED <<raw_data, events, raisedAt, result>>
        ELSE /\ events' = Append(events, "extract.raise")
             /\ raw_data' = raw_data
             /\ RunFails(e, "extract_csv")
    /\ UNCHANGED <<source, csvFiles, fileIdx, all_data, transformed,
                   rows_loaded, csvReturned, apiReturned, sinkWrites>>
    /\ UNCHANGED notRun

\* the CSV loop is exhausted (main.py:125)
CsvDone ==
    /\ pc = "extract_csv"
    /\ fileIdx = csvFiles
    /\ pc' = AfterCsv(source)
    /\ UNCHANGED <<source, csvFiles, fileIdx, all_data, raw_data, transformed,
                   rows_loaded, events, log, csvReturned, apiReturned,
                   sinkWrites, raisedAt, result>>
    /\ UNCHANGED notRun

\* all_data after the API frame is appended (main.py:147)
AppendApiFrame(frames, n) ==
    Append(frames, [src |-> "api", file |-> 0, rows |-> n])

\* the API block, api_extractor.extract returning n records (main.py:133-149)
ApiExtractOk ==
    /\ pc = "extract_api"
    /\ \E n \in 0..MaxRows :
        /\ all_data' = AppendApiFrame(all_data, n)
        /\ apiReturned' = n
    /\ pc' = "combine"
    /\ UNCHANGED <<source, csvFiles, fileIdx, raw_data, transformed,
                   rows_loaded, events, log, csvReturned, sinkWrites,
                   raisedAt, result>>
    /\ UNCHANGED notRun

\* all_data after the API block failed (main.py:151-152)
KeepFrames(frames) == frames

\* the API block, api_extractor.extract raising (main.py:144, 151-152)
ApiExtractFails ==
    /\ pc = "extract_api"
    /\ apiReturned' = -2
    /\ all_data' = KeepFrames(all_data)
    /\ \E e \in ApiErrors :
        IF ExtractApiCatches(e)
        THEN /\ log' = log \cup {"api_failed"}
             /\ pc' = "combine"
             /\ UNCHANGED <<raw_data, events, raisedAt, result>>
        ELSE /\ events' = Append(events, "extract.raise")
             /\ raw_data' = raw_data
             /\ RunFails(e, "extract_api")
    /\ UNCHANGED <<source, csvFiles, fileIdx, transformed, rows_loaded,
                   csvReturned, sinkWrites>>
    /\ UNCHANGED notRun

\* extract concatenates, saves the raw file and returns (main.py:155-166),
\* then run tests the result (main.py:68-70)
Combine ==
    /\ pc = "combine"
    /\ raw_data' = IF all_data # <<>>
                   THEN [kind |-> "frame", rows |-> SumRows(all_data)]
                   ELSE [kind |-> "None", rows |-> 0]
    /\ events' = Append(events, "extract.return")
    /\ pc' = "run_check"
    /\ UNCHANGED <<source, csvFiles, fileIdx, all_data, transformed,
                   rows_loaded, log, csvReturned, apiReturned, sinkWrites,
                   raisedAt, result>>
    /\ UNCHANGED notRun

\* pd.concat or to_csv of the raw file raises outside any handler of extract
\* (main.py:156-161)
CombineFails ==
    /\ pc = "combine"
    /\ all_data # <<>>
    /\ events' = Append(events, "extract.raise")
    /\ \E e \in CombineErrors : RunFails(e, "combine")
    /\ UNCHANGED <<source, csvFiles, fileIdx, all_data, raw_data, transformed,
                   rows_loaded, csvReturned, apiReturned, sinkWrites>>
    /\ UNCHANGED notRun

\* `if raw_data is None or raw_data.empty: return False` (main.py:68-70)
RunAbortNoData ==
    /\ pc = "run_check"
    /\ NoData(raw_data)
    /\ log' = log \cup {"no_data"}
    /\ result' = "False"
    /\ pc' = "done"
    /\ UNCHANGED <<source, csvFiles, fileIdx, all_data, raw_data, transformed,
                   rows_loaded, events, csvReturned, apiReturned, sinkWrites,
                   raisedAt>>
    /\ UNCHANGED notRun

\* run calls transform (main.py:72-74)
RunCallTransform ==
    /\ pc = "run_check"
    /\ ~NoData(raw_data)
    /\ events' = Append(events, "transform.call")
    /\ pc' = "transform"
    /\ UNCHANGED <<source, csvFiles, fileIdx, all_data, raw_data, transformed,
                   rows_loaded, log, csvReturned, apiReturned, sinkWrites,
                   raisedAt, result>>
    /\ UNCHANGED notRun

\* where run goes when transform raised
AfterTransformRaiseGoOn(e) ==
    /\ pc' = "load"
    /\ events' = Append(Append(events, "transform.raise"), "load.call")
    /\ UNCHANGED <<log, raisedAt, result>>
AfterTransformRaise(e) ==
    /\ events' = Append(events, "transform.raise")
    /\ RunFails(e, "transform")

\* transform returns, and run calls load (main.py:168-213, 76-78).  clean
\* with remove_duplicates keeps at least one of the rows and never adds one.
TransformOk ==
    /\ pc = "transform"
    /\ \E n \in 1..raw_data.rows : transformed' = [kind |-> "frame", rows |-> n]
    /\ events' = Append(Append(events, "transform.return"), "load.call")
    /\ pc' = "load"
    /\ UNCHANGED <<source, csvFiles, fileIdx, all_data, raw_data, rows_loaded,
                   log, csvReturned, apiReturned, sinkWrites, raisedAt, result>>
    /\ UNCHANGED notRun

\* transform raises (main.py:74, 94-96)
TransformFails ==
    /\ pc = "transform"
    /\ \E e \in TransformErrors : AfterTransformRaise(e)
    /\ UNCHANGED <<source, csvFiles, fileIdx, all_data, raw_data, transformed,
                   rows_loaded, csvReturned, apiReturned, sinkWrites>>
    /\ UNCHANGED notRun

\* load returns the number of rows presented (main.py:215-246, 78)
LoadOk ==
    /\ pc = "load"
    /\ transformed.kind = "frame"
    /\ rows_loaded' = transformed.rows
    /\ sinkWrites' = sinkWrites + 1
    /\ events' = Append(events, "load.return")
    /\ pc' = "summary"
    /\ UNCHANGED <<source, csvFiles, fileIdx, all_data, raw_data, transformed,
                   log, csvReturned, apiReturned, raisedAt, result>>
    /\ UNCHANGED notRun

\* what run returns when load raised
AfterLoadRaiseIgnored(e) ==
    /\ pc' = "summary"
    /\ UNCHANGED <<log, raisedAt, result>>
AfterLoadRaise(e) == RunFails(e, "load")

\* load raises, before or after it reached the sink (main.py:78, 94-96)
LoadFails ==
    /\ pc = "load"
    /\ \E e \in LoadErrors : AfterLoadRaise(e)
    /\ \E w \in 0..1 : sinkWrites' = sinkWrites + w
    /\ events' = Append(events, "load.raise")
    /\ UNCHANGED <<source, csvFiles, fileIdx, all_data, raw_data, transformed,
                   rows_loaded, csvReturned, apiReturned>>
    /\ UNCHANGED notRun

\* the success summary and `return True` (main.py:80-92)
RunSummary ==
    /\ pc = "summary"
    /\ events' = Append(events, "summary")
    /\ log' = log \cup {"success"}
    /\ result' = "True"
    /\ pc' = "done"
    /\ UNCHANGED <<source, csvFiles, fileIdx, all_data, raw_data, transformed,
                   rows_loaded, csvReturned, apiReturned, sinkWrites, raisedAt>>
    /\ UNCHANGED notRun

NextRun ==
    \/ RunStart
    \/ CsvFileRead
    \/ CsvFileFails
    \/ CsvDone
    \/ ApiExtractOk
    \/ ApiExtractFails
    \/ Combine
    \/ CombineFails
    \/ RunAbortNoData
    \/ RunCallTransform
    \/ TransformOk
    \/ TransformFails
    \/ LoadOk
    \/ LoadFails
    \/ RunSummary

(***************************************************************************)
(* APIExtractor (src/extract/api_extractor.py).                             *)
(*                                                                         *)
(* A JSON value that the code reads as a number is [t, v]: t is "absent"    *)
(* (the key is missing), "null" (present, not a number) or "int".  A        *)
(* response body is a record: kind is "array", "object", "other" (any other *)
(* JSON value), "invalid" (not JSON) or "none" (no response object at all); *)
(* keys says of each container key whether it is absent, holds an array or  *)
(* holds something else; n is the length of the arrays the body holds.      *)
(***************************************************************************)
Absent == [t |-> "absent", v |-> 0]
Null   == [t |-> "null", v |-> 0]
IntV(i) == [t |-> "int", v |-> i]

\* `for key in ['data', 'results', 'items', 'records']` (api_extractor.py:161)
ContainerKeys == <<"data", "results", "items", "records">>

\* limit = data.get('limit', 100)
DefaultLimit == 100
\* max_retries: int = 3
DefaultMaxRetries == 3

NoKeys == [k \in {"data", "results", "items", "records"} |-> "absent"]

Body(kind, keys, n, next, next_page, page, total_pages, offset, limit) ==
    [kind |-> kind, keys |-> keys, n |-> n, next |-> next,
     next_page |-> next_page, page |-> page, total_pages |-> total_pages,
     offset |-> offset, limit |-> limit]

NoneResponse ==
    Body("none", NoKeys, 0, FALSE, FALSE, Absent, Absent, Absent, Absent)

PlainBody(kind, n) ==
    Body(kind, NoKeys, n, FALSE, FALSE, Absent, Absent, Absent, Absent)

\* the bodies the source may answer request number `no` with
PagedBodies(no) ==
    { Body("object", [NoKeys EXCEPT !["data"] = "array"], n, FALSE, FALSE,
           IntV(no), IntV(t), Absent, Absent) :
        n \in 0..MaxRecs, t \in 1..MaxFetches }

\* bodies with a next or next_page link, and a page or offset cursor or none
CursorBodies ==
    { Body("object", [NoKeys EXCEPT !["data"] = "array"], 1,
           sig[1], sig[2], cur[1], Absent, cur[2], cur[3]) :
        sig \in {<<FALSE, FALSE>>, <<TRUE, FALSE>>, <<FALSE, TRUE>>},
        cur \in {<<Absent, Absent, Absent>>, <<Null, Absent, Absent>>,
                 <<Absent, IntV(0), Absent>>, <<Absent, IntV(0), IntV(2)>>} }

\* an array, an object without container key, another JSON value, a body
\* that is not JSON, and an object whose total_pages is not a number
BareBodies ==
    { PlainBody("array", 1), PlainBody("object", 0), PlainBody("other", 0),
      PlainBody("invalid", 0),
      Body("object", NoKeys, 0, FALSE, FALSE, IntV(1), Null, Absent, Absent) }

Bodies(no) == PagedBodies(no) \cup CursorBodies \cup BareBodies

\* the errors of session.request and raise_for_status
RequestErrors == {"Timeout", "ConnectionError", "HTTPError"}

\* the array a body holds under `key`, as answer number `no` of the source
Records(no, key, n) == [i \in 1..n |-> <<no, key, i>>]

RECURSIVE FirstPresentKey(_, _)
\* the first of ContainerKeys from position i on that is present, or ""
FirstPresentKey(keys, i) ==
    IF i > Len(ContainerKeys) THEN ""
    ELSE IF keys[ContainerKeys[i]] # "absent" THEN ContainerKeys[i]
    ELSE FirstPresentKey(keys, i + 1)

RECURSIVE FirstArrayKey(_, _)
\* the first of ContainerKeys from position i on that holds an array, or ""
FirstArrayKey(keys, i) ==
    IF i > Len(ContainerKeys) THEN ""
    ELSE IF keys[ContainerKeys[i]] = "array" THEN ContainerKeys[i]
    ELSE FirstArrayKey(keys, i + 1)

\* as _parse_response, were a body that is not JSON answered with no records
ParseResponseLenient(resp, no) ==
    [ok |-> TRUE, exc |-> "",
     data |-> IF resp.kind = "array" THEN Records(no, "root", resp.n)
              ELSE <<>>]

\* _parse_response (api_extractor.py:143-172): [ok, exc, data]
ParseResponse(resp, no) ==
    CASE resp.kind = "none" ->
            [ok |-> FALSE, exc |-> "AttributeError", data |-> <<>>]
      [] resp.kind = "invalid" ->
            [ok |-> FALSE, exc |-> "JSONDecodeError", data |-> <<>>]
      [] resp.kind = "array" ->
            [ok |-> TRUE, exc |-> "", data |-> Records(no, "root", resp.n)]
      [] resp.kind = "object" ->
            LET k == FirstArrayKey(resp.keys, 1)
            IN  IF k # ""
                THEN [ok |-> TRUE, exc |-> "", data |-> Records(no, k, resp.n)]
                ELSE [ok |-> TRUE, exc |-> "", data |-> <<<<no, "self", 1>>>>]
      [] OTHER ->
            [ok |-> TRUE, exc |-> "", data |-> <<>>]

\* data.get(key, 0)
GetOr0(jv) == IF jv.t = "absent" THEN IntV(0) ELSE jv

\* _has_next_page (api_extractor.py:174-198)
HasNextPageAlways(resp) == resp.kind = "object"
\* as _has_next_page, were `except: return True` its last line
HasNextPageErrContinues(resp) ==
    IF resp.kind \in {"invalid", "none"} THEN TRUE
    ELSE IF resp.kind # "object" THEN FALSE
    ELSE IF resp.next \/ resp.next_page THEN TRUE
    ELSE LET p == GetOr0(resp.page)
             t == GetOr0(resp.total_pages)
         IN  IF p.t = "int" /\ t.t = "int" THEN p.v < t.v
             ELSE TRUE

\* as _has_next_page, were page only required not to exceed total_pages
HasNextPageUpTo(resp) ==
    IF resp.kind # "object" THEN FALSE
    ELSE IF resp.next \/ resp.next_page THEN TRUE
    ELSE LET p == GetOr0(resp.page)
             t == GetOr0(resp.total_pages)
         IN  IF p.t = "int" /\ t.t = "int" THEN p.v <= t.v
             ELSE FALSE

HasNextPage(resp) ==
    IF resp.kind # "object" THEN FALSE
    ELSE IF resp.next \/ resp.next_page THEN TRUE
    ELSE LET p == GetOr0(resp.page)
             t == GetOr0(resp.total_pages)
         IN  IF p.t = "int" /\ t.t = "int" THEN p.v < t.v
             ELSE FALSE

\* as _get_next_page_params, were offset looked at before page
GetNextPageParamsOffsetFirst(resp, cur) ==
    IF resp.kind # "object" THEN cur
    ELSE IF resp.offset.t = "int"
         THEN [cur EXCEPT !.offset = IntV(resp.offset.v + DefaultLimit)]
    ELSE IF resp.page.t = "int"
         THEN [cur EXCEPT !.page = IntV(resp.page.v + 1)]
    ELSE cur

\* _get_next_page_params (api_extractor.py:200-231)
GetNextPageParams(resp, cur) ==
    IF resp.kind # "object" THEN cur
    ELSE IF resp.page.t # "absent"
         THEN IF resp.page.t = "int"
              THEN [cur EXCEPT !.page = IntV(resp.page.v + 1)]
              ELSE cur
    ELSE IF resp.offset.t # "absent"
         THEN LET limit == IF resp.limit.t = "absent" THEN IntV(DefaultLimit)
                           ELSE resp.limit
              IN  IF resp.offset.t = "int" /\ limit.t = "int"
                  THEN [cur EXCEPT !.offset = IntV(resp.offset.v + limit.v)]
                  ELSE cur
    ELSE cur

RECURSIVE Pow2(_)
Pow2(k) == IF k = 0 THEN 1 ELSE 2 * Pow2(k - 1)

\* wait_time = 2 ** attempt (api_extractor.py:131)
BackoffFromOne(a) == Pow2(a + 1)
Backoff(a) == Pow2(a)

\* `for attempt in range(self.max_retries)` (api_extractor.py:118)
\* as range(self.max_retries), were the loop entered once in any case
InLoopAtLeastOnce(a) == a < max_retries \/ a = 0
InLoop(a) == a < max_retries

\* `if attempt < self.max_retries - 1` (api_extractor.py:136)
WillRetryAlways(a) == a < max_retries
WillRetry(a) == a < max_retries - 1

\* all_data.extend(data) (api_extractor.py:80, 87)
ExtendReplace(acc, data) == data
Extend(acc, data) == acc \o data

\* the source has so far answered request N with page = N, total_pages = T
\* and no other continuation signal
PagedAfter(t, resp, no) ==
    IF /\ t >= 0
       /\ resp.kind = "object"
       /\ ~resp.next /\ ~resp.next_page
       /\ resp.page = IntV(no)
       /\ resp.total_pages.t = "int"
       /\ t \in {0, resp.total_pages.v}
    THEN resp.total_pages.v
    ELSE -1

NoList == [some |-> FALSE, data |-> <<>>]

InitApi ==
    /\ max_retries \in 0..MaxRetries
    /\ apc = "idle"
    /\ params = [page |-> Absent, offset |-> Absent, q |-> "x"]
    /\ attempt = 0
    /\ pageRequests = 0
    /\ fetches = 0
    /\ waited = 0
    /\ lastWait = 0
    /\ lastErr = "none"
    /\ response = NoneResponse
    /\ pageData = <<>>
    /\ api_all_data = <<>>
    /\ apiResult = "none"
    /\ failedAt = "none"
    /\ returned = NoList
    /\ pagedT = 0

\* extract is entered and calls _make_request (api_extractor.py:71-78)
ApiStart ==
    /\ apc = "idle"
    /\ apc' = "request"
    /\ fetches' = 1
    /\ UNCHANGED <<max_retries, params, attempt, pageRequests, waited,
                   lastWait, lastErr, response, pageData, api_all_data,
                   apiResult, failedAt, returned, pagedT>>
    /\ UNCHANGED notApi

\* an attempt whose request succeeds (api_extractor.py:120-128)
AttemptSucceeds ==
    /\ apc = "request"
    /\ InLoop(attempt)
    /\ \E b \in Bodies(fetches) :
        /\ response' = b
        /\ pagedT' = PagedAfter(pagedT, b, fetches)
    /\ pageRequests' = pageRequests + 1
    /\ apc' = "parse"
    /\ UNCHANGED <<max_retries, params, attempt, fetches, waited, lastWait,
                   lastErr, pageData, api_all_data, apiResult, failedAt,
                   returned>>
    /\ UNCHANGED notApi

\* what extract does with the exception of _make_request
\* (api_extractor.py:97-99)
OnFetchErrorSwallow(e) ==
    /\ apiResult' = "returned"
    /\ returned' = [some |-> TRUE, data |-> api_all_data]
    /\ failedAt' = "fetch"
OnFetchError(e) ==
    /\ apiResult' = e
    /\ returned' = NoList
    /\ failedAt' = "fetch"

\* an attempt whose request fails with a RequestException: sleep and go
\* round the loop, or re-raise out of extract (api_extractor.py:130-141, 97-99)
AttemptFails ==
    /\ apc = "request"
    /\ InLoop(attempt)
    /\ pageRequests' = pageRequests + 1
    /\ pagedT' = -1
    /\ \E e \in RequestErrors :
        /\ IF WillRetry(attempt)
           THEN /\ lastErr' = "none"
                /\ lastWait' = Backoff(attempt)
                /\ waited' = waited + Backoff(attempt)
                /\ attempt' = attempt + 1
                /\ UNCHANGED <<apc, apiResult, failedAt, returned>>
           ELSE /\ lastErr' = e
                /\ OnFetchError(e)
                /\ apc' = "done"
                /\ UNCHANGED <<lastWait, waited, attempt>>
    /\ UNCHANGED <<max_retries, params, fetches, response, pageData,
                   api_all_data>>
    /\ UNCHANGED notApi

\* the loop of _make_request ends without a return or a raise, so the
\* call returns None (api_extractor.py:118, falling off the function)
FetchFallsThrough ==
    /\ apc = "request"
    /\ ~InLoop(attempt)
    /\ response' = NoneResponse
    /\ apc' = "parse"
    /\ UNCHANGED <<max_retries, params, attempt, pageRequests, fetches,
                   waited, lastWait, lastErr, pageData, api_all_data,
                   apiResult, failedAt, returned, pagedT>>
    /\ UNCHANGED notApi

\* _parse_response and all_data.extend (api_extractor.py:79-80, 86-87)
ParsePage ==
    /\ apc = "parse"
    /\ LET r == ParseResponse(response, fetches)
       IN  IF r.ok
           THEN /\ api_all_data' = Extend(api_all_data, r.data)
                /\ pageData' = Append(pageData, r.data)
                /\ apc' = "check"
                /\ UNCHANGED <<apiResult, failedAt, returned>>
           ELSE /\ apiResult' = r.exc
                /\ failedAt' = "parse"
                /\ returned' = NoList
                /\ apc' = "done"
                /\ UNCHANGED <<api_all_data, pageData>>
    /\ UNCHANGED <<max_retries, params, attempt, pageRequests, fetches,
                   waited, lastWait, lastErr, response, pagedT>>
    /\ UNCHANGED notApi

\* the loop test is true: next parameters, next _make_request
\* (api_extractor.py:83-85)
NextPage ==
    /\ apc = "check"
    /\ HasNextPage(response)
    /\ fetches < MaxFetches
    /\ params' = GetNextPageParams(response, params)
    /\ fetches' = fetches + 1
    /\ attempt' = 0
    /\ pageRequests' = 0
    /\ waited' = 0
    /\ lastWait' = 0
    /\ apc' = "request"
    /\ UNCHANGED <<max_retries, lastErr, response, pageData,
                   api_all_data, apiResult, failedAt, returned, pagedT>>
    /\ UNCHANGED notApi

\* the loop test is false: extract returns all_data (api_extractor.py:83, 95)
ExtractReturns ==
    /\ apc = "check"
    /\ ~HasNextPage(response)
    /\ apiResult' = "returned"
    /\ returned' = [some |-> TRUE, data |-> api_all_data]
    /\ apc' = "done"
    /\ UNCHANGED <<max_retries, params, attempt, pageRequests, fetches,
                   waited, lastWait, lastErr, response, pageData,
                   api_all_data, failedAt, pagedT>>
    /\ UNCHANGED notApi

NextApi ==
    \/ ApiStart
    \/ AttemptSucceeds
    \/ AttemptFails
    \/ FetchFallsThrough
    \/ ParsePage
    \/ NextPage
    \/ ExtractReturns

(***************************************************************************)
(* One call of _parse_response, _has_next_page or _get_next_page_params on *)
(* an arbitrary response body.                                              *)
(***************************************************************************)
\* what a key of a JSON object may hold as far as the three methods look
KeyShapes == {"absent", "array", "scalar"}

\* bodies that differ in what _parse_response looks at
ParseInputs ==
    { Body("object", keys, n, FALSE, FALSE, Absent, Absent, Absent, Absent) :
        keys \in [DOMAIN NoKeys -> KeyShapes], n \in 0..MaxRecs }
    \cup { PlainBody(kind, n) :
             kind \in {"array", "other", "invalid"}, n \in 0..MaxRecs }

\* an optional JSON member: missing, null, or one of two numbers
JsonNums == {Absent, Null, IntV(1), IntV(2)}

\* bodies that differ in what _has_next_page and _get_next_page_params
\* look at
PageInputs ==
    { Body("object", NoKeys, 1, nx, np, pg, tp, of, lm) :
        nx \in BOOLEAN, np \in BOOLEAN, pg \in JsonNums, tp \in JsonNums,
        of \in {Absent, Null, IntV(5)}, lm \in {Absent, Null, IntV(2)} }
    \cup { PlainBody(kind, 1) : kind \in {"array", "other", "invalid"} }

\* the query parameters of the request the response answers
CurParams ==
    { [page |-> p, offset |-> o, q |-> "x"] :
        p \in {Absent, IntV(1)}, o \in {Absent, IntV(0)} }

NoParse == [ok |-> FALSE, exc |-> "", data |-> <<>>]

InitFn ==
    /\ fnBody \in ParseInputs \cup PageInputs
    /\ fnNo = 1
    /\ fnCur \in CurParams
    /\ fnCalled = "none"
    /\ fnParsed = NoParse
    /\ fnHasNext = FALSE
    /\ fnParams = fnCur

\* no method called
FnIdle ==
    /\ fnBody = NoneResponse
    /\ fnNo = 0
    /\ fnCur = [page |-> Absent, offset |-> Absent, q |-> "x"]
    /\ fnCalled = "none"
    /\ fnParsed = NoParse
    /\ fnHasNext = FALSE
    /\ fnParams = fnCur

\* data = self._parse_response(response) (api_extractor.py:143-172)
CallParseResponse ==
    /\ fnCalled = "none"
    /\ fnCalled' = "_parse_response"
    /\ fnParsed' = ParseResponse(fnBody, fnNo)
    /\ UNCHANGED <<fnBody, fnNo, fnCur, fnHasNext, fnParams>>
    /\ UNCHANGED notFn

\* self._has_next_page(response) (api_extractor.py:174-198)
CallHasNextPage ==
    /\ fnCalled = "none"
    /\ fnCalled' = "_has_next_page"
    /\ fnHasNext' = HasNextPage(fnBody)
    /\ UNCHANGED <<fnBody, fnNo, fnCur, fnParsed, fnParams>>
    /\ UNCHANGED notFn

\* self._get_next_page_params(response, params) (api_extractor.py:200-231)
CallGetNextPageParams ==
    /\ fnCalled = "none"
    /\ fnCalled' = "_get_next_page_params"
    /\ fnParams' = GetNextPageParams(fnBody, fnCur)
    /\ UNCHANGED <<fnBody, fnNo, fnCur, fnParsed, fnHasNext>>
    /\ UNCHANGED notFn

NextFn ==
    \/ CallParseResponse
    \/ CallHasNextPage
    \/ CallGetNextPageParams

(***************************************************************************)
(* DatabaseLoader (src/load/db_loader.py) and the relational sink it       *)
(* writes to.  A record set is a sequence of rows over the columns id and   *)
(* name, id being the first column; a table of the sink has rows and at     *)
(* most one unique constraint.                                              *)
(***************************************************************************)
\* df.columns
Columns == <<"id", "name">>

Ids == {1, 2}
Names == {"a", "b"}
Rows == [id : Ids, name : Names]

RECURSIVE SeqsUpTo(_, _)
\* the sequences over S of length at most n
SeqsUpTo(S, n) ==
    IF n = 0 THEN {<<>>}
    ELSE LET shorter == SeqsUpTo(S, n - 1)
         IN  shorter \cup { Append(q, x) : q \in shorter, x \in S }

\* the record sets load may be called with
DataFrames == SeqsUpTo(Rows, MaxDfRows)

\* table_name and f"{table_name}_temp" (db_loader.py:180)
Target == "T"
TempTable == "T_temp"

NoTable == [exists |-> FALSE, rows |-> <<>>, unique |-> {}]
Table(rows, unique) == [exists |-> TRUE, rows |-> rows, unique |-> unique]

\* the value of column c in row r
Col(r, c) == IF c = "id" THEN r.id ELSE r.name

\* rows r1 and r2 agree on every column of K
SameKey(r1, r2, K) == \A c \in K : Col(r1, c) = Col(r2, c)

\* no two rows of the sequence agree on every column of K
DistinctKeys(rows, K) ==
    \A i, j \in DOMAIN rows : (i # j) => ~SameKey(rows[i], rows[j], K)

\* a table's unique constraint, if it has one, is not violated
UniqueHolds(t) == t.unique = {} \/ DistinctKeys(t.rows, t.unique)

\* df.to_sql(..., if_exists='replace'): the table is dropped if it exists,
\* created from the frame's columns and filled with its rows
ToSqlReplace(t, frame) == Table(frame, {})

\* what a failed to_sql(if_exists='replace') may leave of the table: all of
\* it when the drop, create and insert ran in one transaction, an empty or
\* no table when they did not
ToSqlReplaceFailed(t) == {t, Table(<<>>, {}), NoTable}

\* df.to_sql(..., if_exists='append'): the table is created if it does not
\* exist, the rows are inserted
ToSqlAppend(t, frame) ==
    IF t.exists THEN [t EXCEPT !.rows = t.rows \o frame]
    ELSE Table(frame, {})

\* what a failed to_sql(if_exists='append') may leave of the table: the
\* inserts run in one transaction, the create may have been committed
ToSqlAppendFailed(t) == {t} \cup (IF t.exists THEN {} ELSE {Table(<<>>, {})})

\* DO UPDATE SET col = EXCLUDED.col for every column not in K
\* (db_loader.py:191, 198)
SetClause(old, new, K) ==
    [id   |-> IF "id" \in K THEN old.id ELSE new.id,
     name |-> IF "name" \in K THEN old.name ELSE new.name]

\* one row of INSERT ... ON CONFLICT (K) DO UPDATE
UpsertRow(rows, r, K) ==
    IF \E i \in DOMAIN rows : SameKey(rows[i], r, K)
    THEN [i \in DOMAIN rows |->
            IF SameKey(rows[i], r, K) THEN SetClause(rows[i], r, K)
            ELSE rows[i]]
    ELSE Append(rows, r)

RECURSIVE UpsertRows(_, _, _)
UpsertRows(rows, incoming, K) ==
    IF incoming = <<>> THEN rows
    ELSE UpsertRows(UpsertRow(rows, Head(incoming), K), Tail(incoming), K)

\* the statement of db_loader.py:193-199 can be executed: both tables
\* exist, the target has a unique constraint on exactly the ON CONFLICT
\* columns, the SET clause is not empty, and no two selected rows have the
\* same key (the statement may not affect a row a second time)
CanUpsert(target, staged, K) ==
    /\ target.exists
    /\ staged.exists
    /\ target.unique = K
    /\ \E i \in DOMAIN Columns : Columns[i] \notin K
    /\ DistinctKeys(staged.rows, K)

\* the target after the statement of db_loader.py:193-199
Upsert(target, staged, K) ==
    [target EXCEPT !.rows = UpsertRows(target.rows, staged.rows, K)]

\* as Rollback, were the statements executed so far kept
RollbackKeeps(snapshot, current) == current

\* the end of a `with self.engine.begin()` block left by an exception: the
\* sink is as the transaction found it
Rollback(snapshot, current) == snapshot

\* f"idx_{table_name}_{col}" (db_loader.py:223)
IndexName(col) == <<"idx", Target, col>>
IndexNames(cols) == { IndexName(cols[i]) : i \in DOMAIN cols }

\* the indexes left when to_sql(if_exists='replace') has made t of the
\* target table: dropping a table drops its indexes
IndexesAfterReplace(ix, t, t2) == IF t2 = t THEN ix ELSE {}

\* the strategy strings load may be called with; "merge" is none of load's
Strategies == {"append", "replace", "upsert", "merge"}

\* as Dispatch, were an unrecognised strategy loaded by appending
DispatchDefaultAppend(s) ==
    IF s \in {"append", "replace", "upsert"} THEN s ELSE "append"

\* the if/elif chain of load (db_loader.py:74-81)
Dispatch(s) ==
    IF s \in {"append", "replace", "upsert"} THEN s ELSE "unknown"

\* key_columns = None
NoKeyColumns == {}

\* the key columns a caller of load may want: none, or the second column
KeyChoices == {NoKeyColumns, {"name"}}

\* the create_index arguments: None, or the first column
IndexChoices == {<<>>, <<"id">>}

\* the key_columns load hands to _load_upsert: the call
\* self._load_upsert(df, table_name, batch_size) passes none, and load
\* has no parameter that could carry them (db_loader.py:45-52, 79)
KeyColumnsPassed(want) == NoKeyColumns

\* `if key_columns is None: key_columns = [df.columns[0]]`
\* (db_loader.py:176-177)
KeyColumnsUsed(passed) ==
    IF passed = NoKeyColumns THEN {Columns[1]} ELSE passed

\* the states the sink may be in before load is called
TargetStates ==
    {NoTable, Table(<<[id |-> 1, name |-> "a"]>>, {"name"})}
    \cup { Table(rows, unique) :
             rows \in {<<>>, <<[id |-> 1, name |-> "a"]>>,
                       <<[id |-> 1, name |-> "b"], [id |-> 2, name |-> "a"]>>},
             unique \in {{}, {"id"}} }

TempStates == {NoTable, Table(<<[id |-> 2, name |-> "b"]>>, {})}

InitLoad ==
    /\ lpc = "idle"
    /\ df \in DataFrames
    /\ strategy \in Strategies
    /\ create_index \in IndexChoices
    /\ wantKeys \in KeyChoices
    /\ key_columns = NoKeyColumns
    /\ \E tt \in TargetStates, tm \in TempStates :
          tables = [n \in {Target, TempTable} |->
                      IF n = Target THEN tt ELSE tm]
    /\ indexes = {}
    /\ txOpen = FALSE
    /\ txSnapshot = tables
    /\ loads = 0
    /\ loadResults = <<>>
    /\ tablesBefore = tables
    /\ indexesBefore = indexes
    /\ fault = FALSE

\* the loader constructed, load not called
LoadIdle ==
    /\ lpc = "idle"
    /\ df = <<>>
    /\ strategy = "append"
    /\ create_index = <<>>
    /\ wantKeys = NoKeyColumns
    /\ key_columns = NoKeyColumns
    /\ tables = [n \in {Target, TempTable} |-> NoTable]
    /\ indexes = {}
    /\ txOpen = FALSE
    /\ txSnapshot = tables
    /\ loads = 0
    /\ loadResults = <<>>
    /\ tablesBefore = tables
    /\ indexesBefore = indexes
    /\ fault = FALSE

\* load raises exc out of step `at`: logged and re-raised
\* (db_loader.py:95-97)
LoadRaises(exc, at) ==
    /\ lpc' = "done"
    /\ loadResults' =
          Append(loadResults, [res |-> exc, at |-> at, rows |-> -1])

\* load returns rows_loaded = len(df) (db_loader.py:93, 126, 155, 205)
LoadReturns ==
    /\ lpc' = "done"
    /\ loadResults' =
          Append(loadResults,
                 [res |-> "returned", at |-> "none", rows |-> Len(df)])

\* load is called, the first time or again with the same arguments, and
\* chooses the strategy's method (db_loader.py:45-81, 176-177)
LoadCall ==
    /\ lpc \in {"idle", "done"}
    /\ loads < MaxLoads
    /\ loads' = loads + 1
    /\ tablesBefore' = tables
    /\ indexesBefore' = indexes
    /\ CASE Dispatch(strategy) = "unknown" ->
              /\ LoadRaises("ValueError", "dispatch")
              /\ UNCHANGED key_columns
         [] Dispatch(strategy) = "upsert" ->
              /\ lpc' = "stage"
              /\ key_columns' = KeyColumnsUsed(KeyColumnsPassed(wantKeys))
              /\ UNCHANGED loadResults
         [] OTHER ->
              /\ lpc' = Dispatch(strategy)
              /\ UNCHANGED <<key_columns, loadResults>>
    /\ UNCHANGED <<df, strategy, create_index, wantKeys, tables, indexes,
                   txOpen, txSnapshot, fault>>
    /\ UNCHANGED notLoad

\* _load_append: to_sql(if_exists='append') succeeds (db_loader.py:116-126)
AppendOk ==
    /\ lpc = "append"
    /\ UniqueHolds(ToSqlAppend(tables[Target], df))
    /\ tables' = [tables EXCEPT ![Target] = ToSqlAppend(@, df)]
    /\ lpc' = "index"
    /\ UNCHANGED <<df, strategy, create_index, wantKeys, key_columns, indexes,
                   txOpen, txSnapshot, loads, loadResults, tablesBefore,
                   indexesBefore, fault>>
    /\ UNCHANGED notLoad

\* _load_append: to_sql raises
AppendFails ==
    /\ lpc = "append"
    /\ \E t2 \in ToSqlAppendFailed(tables[Target]) :
          tables' = [tables EXCEPT ![Target] = t2]
    /\ fault' = (fault \/ UniqueHolds(ToSqlAppend(tables[Target], df)))
    /\ LoadRaises("SQLAlchemyError", "append")
    /\ UNCHANGED <<df, strategy, create_index, wantKeys, key_columns, indexes,
                   txOpen, txSnapshot, loads, tablesBefore, indexesBefore>>
    /\ UNCHANGED notLoad

\* _load_replace: to_sql(if_exists='replace') succeeds
\* (db_loader.py:145-155)
ReplaceOk ==
    /\ lpc = "replace"
    /\ tables' = [tables EXCEPT ![Target] = ToSqlReplace(@, df)]
    /\ indexes' = IndexesAfterReplace(indexes, tables[Target],
                                      tables'[Target])
    /\ lpc' = "index"
    /\ UNCHANGED <<df, strategy, create_index, wantKeys, key_columns,
                   txOpen, txSnapshot, loads, loadResults, tablesBefore,
                   indexesBefore, fault>>
    /\ UNCHANGED notLoad

\* _load_replace: to_sql raises
ReplaceFails ==
    /\ lpc = "replace"
    /\ \E t2 \in ToSqlReplaceFailed(tables[Target]) :
          /\ tables' = [tables EXCEPT ![Target] = t2]
          /\ indexes' = IndexesAfterReplace(indexes, tables[Target], t2)
    /\ fault' = TRUE
    /\ LoadRaises("SQLAlchemyError", "replace")
    /\ UNCHANGED <<df, strategy, create_index, wantKeys, key_columns,
                   txOpen, txSnapshot, loads, tablesBefore, indexesBefore>>
    /\ UNCHANGED notLoad

\* _load_upsert: the frame is staged in the temporary table by to_sql on
\* the engine, before any transaction is begun (db_loader.py:180-187)
StageOk ==
    /\ lpc = "stage"
    /\ tables' = [tables EXCEPT ![TempTable] = ToSqlReplace(@, df)]
    /\ lpc' = "merge"
    /\ UNCHANGED <<df, strategy, create_index, wantKeys, key_columns, indexes,
                   txOpen, txSnapshot, loads, loadResults, tablesBefore,
                   indexesBefore, fault>>
    /\ UNCHANGED notLoad

\* _load_upsert: the staging to_sql raises
StageFails ==
    /\ lpc = "stage"
    /\ \E t2 \in ToSqlReplaceFailed(tables[TempTable]) :
          tables' = [tables EXCEPT ![TempTable] = t2]
    /\ fault' = TRUE
    /\ LoadRaises("SQLAlchemyError", "stage")
    /\ UNCHANGED <<df, strategy, create_index, wantKeys, key_columns, indexes,
                   txOpen, txSnapshot, loads, tablesBefore, indexesBefore>>
    /\ UNCHANGED notLoad

\* _load_upsert: engine.begin() and the INSERT ... ON CONFLICT statement
\* (db_loader.py:201-202)
MergeOk ==
    /\ lpc = "merge"
    /\ CanUpsert(tables[Target], tables[TempTable], key_columns)
    /\ txOpen' = TRUE
    /\ txSnapshot' = tables
    /\ tables' = [tables EXCEPT
                    ![Target] = Upsert(@, tables[TempTable], key_columns)]
    /\ lpc' = "drop"
    /\ UNCHANGED <<df, strategy, create_index, wantKeys, key_columns, indexes,
                   loads, loadResults, tablesBefore, indexesBefore, fault>>
    /\ UNCHANGED notLoad

\* _load_upsert: the statement raises; the with block rolls back and
\* releases the transaction it had begun (db_loader.py:201-202)
MergeFails ==
    /\ lpc = "merge"
    /\ tables' = Rollback(tables, tables)
    /\ txOpen' = FALSE
    /\ fault' = (fault \/ CanUpsert(tables[Target], tables[TempTable],
                                    key_columns))
    /\ LoadRaises("SQLAlchemyError", "merge")
    /\ UNCHANGED <<df, strategy, create_index, wantKeys, key_columns, indexes,
                   txSnapshot, loads, tablesBefore, indexesBefore>>
    /\ UNCHANGED notLoad

\* _load_upsert: DROP TABLE of the temporary table, then the with block
\* commits (db_loader.py:203)
DropOk ==
    /\ lpc = "drop"
    /\ tables' = [tables EXCEPT ![TempTable] = NoTable]
    /\ txOpen' = FALSE
    /\ lpc' = "index"
    /\ UNCHANGED <<df, strategy, create_index, wantKeys, key_columns, indexes,
                   txSnapshot, loads, loadResults, tablesBefore,
                   indexesBefore, fault>>
    /\ UNCHANGED notLoad

\* _load_upsert: the DROP TABLE or the commit raises; the with block rolls
\* the transaction back (db_loader.py:201-203)
DropFails ==
    /\ lpc = "drop"
    /\ tables' = Rollback(txSnapshot, tables)
    /\ txOpen' = FALSE
    /\ fault' = TRUE
    /\ LoadRaises("SQLAlchemyError", "drop")
    /\ UNCHANGED <<df, strategy, create_index, wantKeys, key_columns, indexes,
                   txSnapshot, loads, tablesBefore, indexesBefore>>
    /\ UNCHANGED notLoad

\* `if create_index:` is false: load returns (db_loader.py:84, 93)
NoIndexes ==
    /\ lpc = "index"
    /\ create_index = <<>>
    /\ LoadReturns
    /\ UNCHANGED <<df, strategy, create_index, wantKeys, key_columns, tables,
                   indexes, txOpen, txSnapshot, loads, tablesBefore,
                   indexesBefore, fault>>
    /\ UNCHANGED notLoad

\* as CanCreateIndexes, were the statement CREATE INDEX without IF NOT EXISTS
CanCreateNewIndexes(t, ix, cols) ==
    t.exists /\ IndexNames(cols) \cap ix = {}

\* the CREATE INDEX IF NOT EXISTS statements can be executed: the table
\* exists; an index of the same name is no obstacle (db_loader.py:224-228)
CanCreateIndexes(t, ix, cols) == t.exists

\* _create_indexes succeeds, load returns (db_loader.py:84-93, 207-230)
IndexesOk ==
    /\ lpc = "index"
    /\ create_index # <<>>
    /\ CanCreateIndexes(tables[Target], indexes, create_index)
    /\ indexes' = indexes \cup IndexNames(create_index)
    /\ LoadReturns
    /\ UNCHANGED <<df, strategy, create_index, wantKeys, key_columns, tables,
                   txOpen, txSnapshot, loads, tablesBefore, indexesBefore,
                   fault>>
    /\ UNCHANGED notLoad

\* _create_indexes raises: its transaction is rolled back, load raises
\* (db_loader.py:221-228, 95-97)
IndexesFail ==
    /\ lpc = "index"
    /\ create_index # <<>>
    /\ fault' = (fault \/ CanCreateIndexes(tables[Target], indexes,
                                           create_index))
    /\ LoadRaises("SQLAlchemyError", "index")
    /\ UNCHANGED <<df, strategy, create_index, wantKeys, key_columns, tables,
                   indexes, txOpen, txSnapshot, loads, tablesBefore,
                   indexesBefore>>
    /\ UNCHANGED notLoad

NextLoad ==
    \/ LoadCall
    \/ AppendOk
    \/ AppendFails
    \/ ReplaceOk
    \/ ReplaceFails
    \/ StageOk
    \/ StageFails
    \/ MergeOk
    \/ MergeFails
    \/ DropOk
    \/ DropFails
    \/ NoIndexes
    \/ IndexesOk
    \/ IndexesFail

(***************************************************************************)
(* DataTransformer (src/transform/transformer.py).  A record set is a       *)
(* frame [cols, rows]: cols is the sequence of columns, each with a name (a *)
(* sequence of characters) and a dtype, rows the sequence of rows, each a   *)
(* sequence of cells in column order.  A cell is null or holds a number, a  *)
(* text or a timestamp.                                                     *)
(***************************************************************************)
NullCell == [t |-> "null", v |-> 0]
Num(v) == [t |-> "num", v |-> v]
Str(v) == [t |-> "str", v |-> v]
Date(v) == [t |-> "date", v |-> v]

Frame(cols, rows) == [cols |-> cols, rows |-> rows]
NoFrame == Frame(<<>>, <<>>)
Column(name, dtype) == [name |-> name, dtype |-> dtype]

RECURSIVE Pick(_, _, _)
\* the members of sequence s at the positions in I from i on, in order
Pick(s, I, i) ==
    IF i > Len(s) THEN <<>>
    ELSE (IF i \in I THEN <<s[i]>> ELSE <<>>) \o Pick(s, I, i + 1)

\* df.drop_duplicates(): of identical rows the first is kept
DropDuplicates(rows) ==
    Pick(rows, { i \in DOMAIN rows : \A j \in 1..(i - 1) : rows[j] # rows[i] },
         1)

\* the number of nulls in column c
NullCount(rows, c) == Cardinality({ i \in DOMAIN rows : rows[i][c].t = "null" })

\* null_counts > null_threshold for column c, the threshold in percent;
\* for a frame without rows the proportion is 0/0, which exceeds nothing
\* (transformer.py:59-60)
TooManyNulls(rows, c, pct) ==
    /\ Len(rows) > 0
    /\ NullCount(rows, c) * 100 > pct * Len(rows)

\* df.drop(columns=cols_to_drop) (transformer.py:62-64)
DropColumns(f, dropped) ==
    LET keep == DOMAIN f.cols \ dropped
    IN  Frame(Pick(f.cols, keep, 1),
              [i \in DOMAIN f.rows |-> Pick(f.rows[i], keep, 1)])

\* df.dropna(): the rows without null (transformer.py:68)
DropNa(rows) ==
    Pick(rows, { i \in DOMAIN rows :
                   \A c \in DOMAIN rows[i] : rows[i][c].t # "null" }, 1)

RECURSIVE InsertSorted(_, _)
InsertSorted(s, x) ==
    IF s = <<>> THEN <<x>>
    ELSE IF x <= Head(s) THEN <<x>> \o s
    ELSE <<Head(s)>> \o InsertSorted(Tail(s), x)

RECURSIVE Sorted(_)
Sorted(s) == IF s = <<>> THEN <<>> ELSE InsertSorted(Sorted(Tail(s)), Head(s))

\* the values of the non-null cells of column c, in row order
ColValues(rows, c) ==
    LET cells == [i \in DOMAIN rows |-> rows[i][c]]
        full == SelectSeq(cells, LAMBDA x : x.t # "null")
    IN  [i \in DOMAIN full |-> full[i].v]

\* Series.median() of the values: the middle one, or the mean of the two
\* middle ones; there is none when there is no value (NaN)
HasMedian(vals) == vals # <<>>
Median(vals) ==
    LET s == Sorted(vals)
        n == Len(s)
    IN  IF n % 2 = 1 THEN s[(n + 1) \div 2]
        ELSE (s[n \div 2] + s[n \div 2 + 1]) \div 2

\* Series.mode()[0]: the most frequent value, the smallest of several
Mode(vals) ==
    LET count(x) == Cardinality({ i \in DOMAIN vals : vals[i] = x })
        vs == { vals[i] : i \in DOMAIN vals }
        top == { x \in vs : \A y \in vs : count(y) <= count(x) }
    IN  CHOOSE x \in top : \A y \in top : x <= y

\* fill_val = 'Unknown' (transformer.py:94)
Unknown == [t |-> "str", v |-> 0]

\* the value _fill_nulls puts for the nulls of column c, NullCell when it
\* puts none or NaN (transformer.py:88-98)
FillValue(f, c) ==
    LET vals == ColValues(f.rows, c)
        dt == f.cols[c].dtype
    IN  IF dt \in {"int64", "float64"}
        THEN IF HasMedian(vals) THEN Num(Median(vals)) ELSE NullCell
        ELSE IF dt = "object"
        THEN IF vals # <<>> THEN Str(Mode(vals)) ELSE Unknown
        ELSE IF dt = "datetime64[ns]"
        THEN IF HasMedian(vals) THEN Date(Median(vals)) ELSE NullCell
        ELSE NullCell

\* _fill_nulls (transformer.py:76-100)
FillNulls(f) ==
    Frame(f.cols,
          [i \in DOMAIN f.rows |->
             [c \in DOMAIN f.cols |->
                IF f.rows[i][c].t = "null" THEN FillValue(f, c)
                ELSE f.rows[i][c]]])

\* the frame clean has after its duplicate and column steps
\* (transformer.py:54-64)
CleanPruned(f, a) ==
    LET rows == IF a.remove_duplicates THEN DropDuplicates(f.rows)
                ELSE f.rows
        dropped == { c \in DOMAIN f.cols :
                       TooManyNulls(rows, c, a.null_threshold) }
    IN  IF dropped = {} THEN Frame(f.cols, rows)
        ELSE DropColumns(Frame(f.cols, rows), dropped)

\* df[col].fillna(value, inplace=True) fills a Series taken out of the
\* frame: the frame is filled where the Series is a view of it, and left
\* as it is where pandas hands out a copy (copy-on-write)
\* (transformer.py:90, 95, 98)
FillNullsInPlace(f, a) == IF a.series_is_view THEN FillNulls(f) ELSE f

\* clean (transformer.py:31-74)
Clean(f, a) ==
    LET g == CleanPruned(f, a)
    IN  IF a.handle_nulls = "drop" THEN Frame(g.cols, DropNa(g.rows))
        ELSE IF a.handle_nulls = "fill" THEN FillNullsInPlace(g, a)
        ELSE g

\* the caller's frame after clean: _fill_nulls fills in place, and the
\* frame it fills is the caller's when neither drop_duplicates nor drop
\* has made a new one (transformer.py:54-55, 62-64, 71, 90-98)
CleanLeaves(f, a) ==
    IF /\ a.handle_nulls = "fill"
       /\ ~a.remove_duplicates
       /\ \A c \in DOMAIN f.cols :
             ~TooManyNulls(f.rows, c, a.null_threshold)
    THEN FillNullsInPlace(f, a)
    ELSE f

\* the record sets clean is called with: a numeric or timestamp column a
\* and a text column b
CleanValues(dtype) ==
    IF dtype = "float64" THEN {NullCell, Num(2), Num(4)}
    ELSE {NullCell, Date(2), Date(4)}

CleanFrames ==
    UNION { { Frame(<<Column(<<"a">>, dt), Column(<<"b">>, "object")>>, rows) :
                rows \in SeqsUpTo({ <<x, y>> : x \in CleanValues(dt),
                                             y \in {NullCell, Str(1), Str(2)} },
                                  MaxTfRows) } :
            dt \in {"float64", "datetime64[ns]"} }

\* the arguments of clean, null_threshold in percent, and whether the
\* installed pandas makes df[col] a view
CleanArgs ==
    [remove_duplicates : BOOLEAN, handle_nulls : {"drop", "fill", "keep"},
     null_threshold : {0, 50, 100}, series_is_view : BOOLEAN]

\* what a call returned: the exception raised or "none", the frame and,
\* from validate_data, the results
Returned(frame) == [raised |-> "none", frame |-> frame, results |-> <<>>]

\* the input of a call: the frame the previous call returned, the caller's
\* frame for the first
TfInput == IF tfCalls = 0 THEN tfDf ELSE tfOuts[tfCalls].frame

TfIdle ==
    /\ tfOp = "none"
    /\ tfArgs = <<>>
    /\ tfDf = NoFrame
    /\ tfGiven = NoFrame
    /\ tfCalls = 0
    /\ tfOuts = <<>>

InitClean ==
    /\ tfOp = "clean"
    /\ tfArgs \in CleanArgs
    /\ tfDf \in CleanFrames

\* transformer.clean(df, remove_duplicates, handle_nulls, null_threshold)
CallClean ==
    /\ tfOp = "clean"
    /\ tfCalls = 0
    /\ tfCalls' = 1
    /\ tfOuts' = <<Returned(Clean(tfDf, tfArgs))>>
    /\ tfDf' = CleanLeaves(tfDf, tfArgs)
    /\ UNCHANGED <<tfOp, tfArgs, tfGiven>>
    /\ UNCHANGED notTf

\* --- standardize_columns --------------------------------------------------
\* a column name is the sequence of its characters
UpperCase == {"A"}

\* as str.lower, were it str.swapcase
SwapCaseChar(ch) == IF ch = "A" THEN "a" ELSE IF ch = "a" THEN "A" ELSE ch

\* str.lower() on one character
LowerChar(ch) == IF ch \in UpperCase THEN "a" ELSE ch

\* new_col.lower()
Lower(name) == [i \in DOMAIN name |-> LowerChar(name[i])]

\* new_col.replace(' ', '_')
ReplaceSpaces(name) ==
    [i \in DOMAIN name |-> IF name[i] = " " THEN "_" ELSE name[i]]

\* if rename_map: an absent or empty map is not applied
RenameGiven(rename_map) == DOMAIN rename_map # {}

\* df.rename(columns=rename_map): every column whose name is a key gets the
\* key's value, the others keep their names
Rename(cols, rename_map) ==
    [i \in DOMAIN cols |->
        IF cols[i].name \in DOMAIN rename_map
        THEN [cols[i] EXCEPT !.name = rename_map[cols[i].name]]
        ELSE cols[i]]

\* the loop body of standardize_columns for one column name
StandardName(name, a) ==
    LET lowered == IF a.to_lowercase THEN Lower(name) ELSE name
    IN  IF a.replace_spaces THEN ReplaceSpaces(lowered) ELSE lowered

\* standardize_columns(df, rename_map, to_lowercase, replace_spaces)
StandardizeColumns(f, a) ==
    LET renamed == IF RenameGiven(a.rename_map)
                   THEN Rename(f.cols, a.rename_map)
                   ELSE f.cols
    IN  Frame([i \in DOMAIN renamed |->
                  [renamed[i] EXCEPT !.name = StandardName(@, a)]],
              f.rows)

\* the caller's frame after the call: df.columns = new_columns renames the
\* caller's own columns unless df.rename made a new frame before
StandardizeLeaves(f, a) ==
    IF RenameGiven(a.rename_map) THEN f ELSE StandardizeColumns(f, a)

\* the column names standardize_columns is called with, pairwise distinct
\* in a frame, and the rename maps of at most two entries over them
StdNames ==
    {<<"A">>, <<"a">>, <<"b">>, <<"a", " ">>, <<"a", "_">>, <<"A", " ">>}

StdFrames ==
    { Frame(<<Column(n, "object")>>, << <<Str(1)>> >>) : n \in StdNames }
    \cup
    { Frame(<<Column(n[1], "object"), Column(n[2], "object")>>,
            << <<Str(1), Str(2)>> >>) :
        n \in { p \in StdNames \X StdNames : p[1] # p[2] } }

RenameMaps ==
    UNION { [K -> StdNames] :
              K \in { S \in SUBSET StdNames : Cardinality(S) <= 2 } }

StdArgs ==
    [rename_map : RenameMaps, to_lowercase : BOOLEAN,
     replace_spaces : BOOLEAN]

InitStandardize ==
    /\ tfOp = "standardize_columns"
    /\ tfArgs \in StdArgs
    /\ tfDf \in StdFrames

\* transformer.standardize_columns(df, ...), and once more on what the
\* first call returned, with the same arguments
CallStandardizeColumns ==
    /\ tfOp = "standardize_columns"
    /\ tfCalls < 2
    /\ tfCalls' = tfCalls + 1
    /\ tfOuts' = Append(tfOuts, Returned(StandardizeColumns(TfInput, tfArgs)))
    /\ tfDf' = IF tfCalls = 0 \/ ~RenameGiven(tfArgs.rename_map)
               THEN StandardizeLeaves(TfInput, tfArgs)
               ELSE tfDf
    /\ UNCHANGED <<tfOp, tfArgs, tfGiven>>
    /\ UNCHANGED notTf

\* --- convert_types --------------------------------------------------------
\* the number v + 1/2, a float that is no integer
Frac(v) == [t |-> "frac", v |-> v]

\* the position of the column named name, 0 when there is none
ColumnAt(f, name) ==
    IF \E i \in DOMAIN f.cols : f.cols[i].name = name
    THEN CHOOSE i \in DOMAIN f.cols : f.cols[i].name = name
    ELSE 0

\* the cells of column c, in row order
Cells(f, c) == [i \in DOMAIN f.rows |-> f.rows[i][c]]

\* pd.to_numeric(..., errors='coerce') of one value: a text that is no
\* number becomes null
ToNumeric(cell) ==
    IF cell.t # "str" THEN cell
    ELSE IF cell.v = "10" THEN Num(10)
    ELSE IF cell.v = "1.5" THEN Frac(1)
    ELSE NullCell

\* a text pd.to_datetime can parse
IsDateText(cell) == cell.t = "str" /\ cell.v = "2024-01-01"

\* pd.to_datetime of one value that it accepts
ToDatetime(cell) == IF IsDateText(cell) THEN Date(20240101) ELSE cell

\* the conversion of a column to dtype raises: pd.to_datetime has no
\* errors='coerce' and raises on a text that is no date; astype('Int64')
\* raises on a float that is no integer; astype of a type tag numpy does
\* not know raises
ConversionRaises(cells, dtype) ==
    IF dtype = "datetime"
    THEN \E i \in DOMAIN cells : cells[i].t = "str" /\ ~IsDateText(cells[i])
    ELSE IF dtype = "category" THEN FALSE
    ELSE IF dtype \in {"int", "int64"}
    THEN \E i \in DOMAIN cells : ToNumeric(cells[i]).t = "frac"
    ELSE IF dtype \in {"float", "float64"} THEN FALSE
    ELSE TRUE

\* the converted cell and the dtype of the converted column
ConvertedCell(cell, dtype) ==
    IF dtype = "datetime" THEN ToDatetime(cell)
    ELSE IF dtype = "category" THEN cell
    ELSE ToNumeric(cell)

ConvertedDtype(dtype) ==
    IF dtype = "datetime" THEN "datetime64[ns]"
    ELSE IF dtype = "category" THEN "category"
    ELSE IF dtype \in {"int", "int64"} THEN "Int64"
    ELSE "float64"

\* df[col] = <the converted column>
SetColumn(f, c, dtype) ==
    Frame([f.cols EXCEPT ![c].dtype = ConvertedDtype(dtype)],
          [i \in DOMAIN f.rows |->
              [f.rows[i] EXCEPT ![c] = ConvertedCell(@, dtype)]])

\* one round of the loop: an absent column is skipped, a conversion that
\* raises is logged and leaves the column as it was
ConvertColumn(f, entry) ==
    LET c == ColumnAt(f, entry.col)
    IN  IF c = 0 THEN f
        ELSE IF ConversionRaises(Cells(f, c), entry.dtype) THEN f
        ELSE SetColumn(f, c, entry.dtype)

\* as convert_types, were the try around the loop: the first conversion
\* that raises ends it
RECURSIVE ConvertTypesUntilFailure(_, _)
ConvertTypesUntilFailure(f, type_map) ==
    IF type_map = <<>> THEN f
    ELSE LET c == ColumnAt(f, Head(type_map).col)
         IN  IF c # 0 /\ ConversionRaises(Cells(f, c), Head(type_map).dtype)
             THEN f
             ELSE ConvertTypesUntilFailure(ConvertColumn(f, Head(type_map)),
                                           Tail(type_map))

\* convert_types(df, type_map): the entries of the map in their order
RECURSIVE ConvertTypes(_, _)
ConvertTypes(f, type_map) ==
    IF type_map = <<>> THEN f
    ELSE ConvertTypes(ConvertColumn(f, Head(type_map)), Tail(type_map))

\* the record sets convert_types is called with: a text column d of dates
\* and a text column n of numbers, either with texts that are neither
ConvertFrames ==
    { Frame(<<Column(<<"d">>, "object"), Column(<<"n">>, "object")>>, rows) :
        rows \in SeqsUpTo({NullCell, Str("2024-01-01"), Str("abc")}
                          \X {Str("10"), Str("1.5"), Str("abc")},
                          MaxTfRows) }

\* the type maps: at most one entry for each of d, n and a column x that
\* the record set does not have
TypeMapEntries(col, dtypes) ==
    {<<>>} \cup { <<[col |-> col, dtype |-> t]>> : t \in dtypes }

TypeMaps ==
    { d \o x \o n :
        d \in TypeMapEntries(<<"d">>,
                             {"datetime", "int", "float", "no_such_type"}),
        x \in TypeMapEntries(<<"x">>, {"int"}),
        n \in TypeMapEntries(<<"n">>,
                             {"int", "float", "category", "no_such_type"}) }

InitConvertTypes ==
    /\ tfOp = "convert_types"
    /\ tfArgs \in [type_map : TypeMaps]
    /\ tfDf \in ConvertFrames

\* transformer.convert_types(df, type_map): the columns are assigned in the
\* caller's frame, which is returned
CallConvertTypes ==
    /\ tfOp = "convert_types"
    /\ tfCalls = 0
    /\ tfCalls' = 1
    /\ tfOuts' = <<Returned(ConvertTypes(tfDf, tfArgs.type_map))>>
    /\ tfDf' = ConvertTypes(tfDf, tfArgs.type_map)
    /\ UNCHANGED <<tfOp, tfArgs, tfGiven>>
    /\ UNCHANGED notTf

\* --- add_derived_columns --------------------------------------------------
\* the functions of the derivations: lambda x: x[src] * 2, a function that
\* gives the same value for every row, and a function that raises
Double(src) == [fn |-> "double", src |-> src, value |-> 0]
Constant(value) == [fn |-> "constant", src |-> <<>>, value |-> value]
Raising == [fn |-> "raise", src |-> <<>>, value |-> 0]

\* func(df) raises: always, or by the KeyError of a column df has not
FuncRaises(func, f) ==
    \/ func.fn = "raise"
    \/ func.fn = "double" /\ ColumnAt(f, func.src) = 0

\* func(df) when it does not raise: the cells of the new column
FuncValue(func, f) ==
    IF func.fn = "double"
    THEN [i \in DOMAIN f.rows |->
             LET cell == f.rows[i][ColumnAt(f, func.src)]
             IN  IF cell.t = "num" THEN Num(2 * cell.v) ELSE cell]
    ELSE [i \in DOMAIN f.rows |-> Num(func.value)]

\* df[col_name] = cells: a column df has is overwritten, another is added
\* as the last
AssignColumn(f, name, cells) ==
    LET c == ColumnAt(f, name)
    IN  IF c # 0
        THEN Frame(f.cols,
                   [i \in DOMAIN f.rows |-> [f.rows[i] EXCEPT ![c] = cells[i]]])
        ELSE Frame(Append(f.cols, Column(name, "int64")),
                   [i \in DOMAIN f.rows |-> Append(f.rows[i], cells[i])])

\* add_derived_columns(df, derivations): every function is given the frame
\* as the derivations before it left it; one that raises is logged
RECURSIVE AddDerivedColumns(_, _)
AddDerivedColumns(f, derivations) ==
    IF derivations = <<>> THEN f
    ELSE LET d == Head(derivations)
             g == IF FuncRaises(d.func, f) THEN f
                  ELSE AssignColumn(f, d.name, FuncValue(d.func, f))
         IN  AddDerivedColumns(g, Tail(derivations))

\* the record sets add_derived_columns is called with, of one column a,
\* and the derivations of columns p and q
DeriveFrames ==
    { Frame(<<Column(<<"a">>, "int64")>>, rows) :
        rows \in SeqsUpTo({<<Num(1)>>, <<Num(2)>>}, MaxTfRows) }

DerivedNames == {<<"p">>, <<"q">>}

Funcs ==
    { Double(src) : src \in {<<"a">>} \cup DerivedNames }
    \cup {Constant(7), Raising}

Derivations ==
    { s \in SeqsUpTo([name : DerivedNames, func : Funcs], 2) :
        \A i, j \in DOMAIN s : (i # j) => s[i].name # s[j].name }

InitAddDerivedColumns ==
    /\ tfOp = "add_derived_columns"
    /\ tfArgs \in [derivations : Derivations]
    /\ tfDf \in DeriveFrames

\* transformer.add_derived_columns(df, derivations): the columns are
\* assigned in the caller's frame, which is returned
CallAddDerivedColumns ==
    /\ tfOp = "add_derived_columns"
    /\ tfCalls = 0
    /\ tfCalls' = 1
    /\ tfOuts' = <<Returned(AddDerivedColumns(tfDf, tfArgs.derivations))>>
    /\ tfDf' = AddDerivedColumns(tfDf, tfArgs.derivations)
    /\ UNCHANGED <<tfOp, tfArgs, tfGiven>>
    /\ UNCHANGED notTf

\* --- validate_data --------------------------------------------------------
\* the predicates of the checks: len(df) > 0, no null in df,
\* (df['a'] > 0).all(), and a predicate that raises
Predicates == {"not_empty", "no_nulls", "a_positive", "raise"}

\* func(df) raises: always, or by the KeyError of column a
PredicateRaises(pred, f) ==
    \/ pred = "raise"
    \/ pred = "a_positive" /\ ColumnAt(f, <<"a">>) = 0

\* func(df) when it does not raise
PredicateResult(pred, f) ==
    IF pred = "not_empty" THEN f.rows # <<>>
    ELSE IF pred = "no_nulls"
    THEN \A i \in DOMAIN f.rows : \A c \in DOMAIN f.cols :
            f.rows[i][c].t # "null"
    ELSE \A i \in DOMAIN f.rows :
            LET cell == f.rows[i][ColumnAt(f, <<"a">>)]
            IN  cell.t = "num" /\ cell.v > 0

\* results[name] = value
SetResult(results, name, value) ==
    [n \in DOMAIN results \cup {name} |->
        IF n = name THEN value ELSE results[n]]

\* as validate_data, were the try around the loop: the first predicate
\* that raises ends it
RECURSIVE ValidateDataUntilError(_, _, _)
ValidateDataUntilError(f, validations, results) ==
    IF validations = <<>> THEN results
    ELSE LET v == Head(validations)
         IN  IF PredicateRaises(v.func, f)
             THEN SetResult(results, v.name, FALSE)
             ELSE ValidateDataUntilError(
                      f, Tail(validations),
                      SetResult(results, v.name, PredicateResult(v.func, f)))

\* validate_data(df, validations), results being the mapping so far: the
\* result of a predicate is recorded, False for one that raises
RECURSIVE ValidateData(_, _, _)
ValidateData(f, validations, results) ==
    IF validations = <<>> THEN results
    ELSE LET v == Head(validations)
             value == IF PredicateRaises(v.func, f) THEN FALSE
                      ELSE PredicateResult(v.func, f)
         IN  ValidateData(f, Tail(validations),
                          SetResult(results, v.name, value))

\* what validate_data returned
ReturnedResults(results) ==
    [raised |-> "none", frame |-> NoFrame, results |-> results]

\* the record sets validate_data is called with, of one column a or b, and
\* the checks c1 and c2
ValidateFrames ==
    { Frame(<<Column(n, "float64")>>, rows) :
        n \in {<<"a">>, <<"b">>},
        rows \in SeqsUpTo({<<NullCell>>, <<Num(0)>>, <<Num(1)>>}, MaxTfRows) }

CheckNames == {"c1", "c2"}

Validations ==
    { s \in SeqsUpTo([name : CheckNames, func : Predicates], 2) :
        \A i, j \in DOMAIN s : (i # j) => s[i].name # s[j].name }

InitValidateData ==
    /\ tfOp = "validate_data"
    /\ tfArgs \in [validations : Validations]
    /\ tfDf \in ValidateFrames

\* transformer.validate_data(df, validations)
CallValidateData ==
    /\ tfOp = "validate_data"
    /\ tfCalls = 0
    /\ tfCalls' = 1
    /\ tfOuts' =
          <<ReturnedResults(ValidateData(tfDf, tfArgs.validations, <<>>))>>
    /\ UNCHANGED <<tfOp, tfArgs, tfDf, tfGiven>>
    /\ UNCHANGED notTf

\* --- ETLPipeline.transform (src/main.py) ----------------------------------
\* the run-metadata columns and what the run puts into them: datetime.now()
\* and its rendering as a batch id.  A name that case and spaces cannot
\* change is kept as one piece.
LoadedAtColumn == <<"etl_loaded_at">>
BatchIdColumn == <<"etl_batch_id">>
LoadedAt == Date(20261105)
BatchId == Str("20261105")

\* df[name] = value: the column is set to the value in every row, added
\* as the last column when df has none of that name
SetMetadata(f, name, value, dtype) ==
    LET c == ColumnAt(f, name)
    IN  IF c # 0
        THEN Frame([f.cols EXCEPT ![c].dtype = dtype],
                   [i \in DOMAIN f.rows |-> [f.rows[i] EXCEPT ![c] = value]])
        ELSE Frame(Append(f.cols, Column(name, dtype)),
                   [i \in DOMAIN f.rows |-> Append(f.rows[i], value)])

\* the arguments transform passes to clean and to standardize_columns;
\* null_threshold is left at its default of 0.5
TransformCleanArgs(a) ==
    [remove_duplicates |-> TRUE, handle_nulls |-> "fill",
     null_threshold |-> 50, series_is_view |-> a.series_is_view]

TransformStdArgs ==
    [rename_map |-> <<>>, to_lowercase |-> TRUE, replace_spaces |-> TRUE]

\* as transform, were the types converted before the names are
\* standardized
TransformConvertFirst(f, a) ==
    LET cleaned == Clean(f, TransformCleanArgs(a))
        converted == IF a.type_map # <<>>
                     THEN ConvertTypes(cleaned, a.type_map)
                     ELSE cleaned
        named == StandardizeColumns(converted, TransformStdArgs)
    IN  SetMetadata(SetMetadata(named, LoadedAtColumn, LoadedAt,
                                "datetime64[ns]"),
                    BatchIdColumn, BatchId, "object")

\* transform(df): clean, standardize_columns, convert_types when the
\* configured map is not empty, then the two metadata columns
Transform(f, a) ==
    LET cleaned == Clean(f, TransformCleanArgs(a))
        named == StandardizeColumns(cleaned, TransformStdArgs)
        converted == IF a.type_map # <<>>
                     THEN ConvertTypes(named, a.type_map)
                     ELSE named
    IN  SetMetadata(SetMetadata(converted, LoadedAtColumn, LoadedAt,
                                "datetime64[ns]"),
                    BatchIdColumn, BatchId, "object")

\* the record sets transform is called with: a text column of dates named
\* A, a or etl_loaded_at and a numeric column v; the configured type maps
TransformFrames ==
    { Frame(<<Column(n, "object"), Column(<<"v">>, "float64")>>, rows) :
        n \in {<<"A">>, <<"a">>, LoadedAtColumn},
        rows \in SeqsUpTo({Str("2024-01-01"), Str("abc")}
                          \X {NullCell, Num(2), Num(4)},
                          MaxTfRows) }

TransformTypeMaps ==
    { x \o y \o z :
        x \in TypeMapEntries(<<"A">>, {"datetime"}),
        y \in TypeMapEntries(<<"a">>, {"datetime"}),
        z \in TypeMapEntries(LoadedAtColumn, {"int"}) }

InitTransform ==
    /\ tfOp = "transform"
    /\ tfArgs \in [type_map : TransformTypeMaps, series_is_view : BOOLEAN]
    /\ tfDf \in TransformFrames

\* pipeline.transform(df); clean returns a frame of its own, as it removes
\* duplicates, so the caller's frame is left as it was
CallTransform ==
    /\ tfOp = "transform"
    /\ tfCalls = 0
    /\ tfCalls' = 1
    /\ tfOuts' = <<Returned(Transform(tfDf, tfArgs))>>
    /\ UNCHANGED <<tfOp, tfArgs, tfDf, tfGiven>>
    /\ UNCHANGED notTf

\* the operation and its arguments are chosen; nothing is called yet
InitTf ==
    /\ \/ InitClean
       \/ InitStandardize
       \/ InitConvertTypes
       \/ InitAddDerivedColumns
       \/ InitValidateData
       \/ InitTransform
    /\ tfGiven = tfDf
    /\ tfCalls = 0
    /\ tfOuts = <<>>

NextTf ==
    \/ CallClean
    \/ CallStandardizeColumns
    \/ CallConvertTypes
    \/ CallAddDerivedColumns
    \/ CallValidateData
    \/ CallTransform

(***************************************************************************)
(* CSVExtractor (src/extract/csv_extractor.py).                             *)
(***************************************************************************)
\* a path is the sequence of its components; Path(file_path).name is the
\* last of them
FileName(path) == path[Len(path)]

\* a file: missing, present but not parseable as CSV, or a CSV file with
\* its data rows
NoFile == [state |-> "missing", rows |-> <<>>]
BadFile == [state |-> "unreadable", rows |-> <<>>]
CsvFile(rows) == [state |-> "ok", rows |-> rows]

\* Path(file_path).exists()
Exists(file) == file.state # "missing"

\* the chunks pd.read_csv(chunksize=n) yields: n rows each, the last one
\* shorter, and one empty chunk for a file without data rows
RECURSIVE Chunks(_, _)
Chunks(rows, n) ==
    IF Len(rows) <= n THEN <<rows>>
    ELSE <<SubSeq(rows, 1, n)>> \o Chunks(SubSeq(rows, n + 1, Len(rows)), n)

\* pd.concat(frames, ignore_index=True): the rows of the frames in order
RECURSIVE Concat(_)
Concat(frames) ==
    IF frames = <<>> THEN <<>> ELSE Head(frames) \o Concat(Tail(frames))

\* what a call did: the exception raised or "none", the rows returned and
\* the reads of files it made
Outcome(raised, rows, reads) ==
    [raised |-> raised, rows |-> rows, reads |-> reads]

\* the read of _detect_encoding, made when no encoding was configured
DetectReads(path, a) ==
    IF a.encoding_given THEN <<>> ELSE <<[path |-> path, what |-> "detect"]>>

\* as extract, were the encoding detected before the existence check: the
\* open of a missing file raises FileNotFoundError as well
ExtractDetectsFirst(path, files, a) ==
    LET reads == DetectReads(path, a) \o <<[path |-> path, what |-> "parse"]>>
    IN  IF ~Exists(files[path])
        THEN Outcome("FileNotFoundError", <<>>, DetectReads(path, a))
        ELSE IF files[path].state = "unreadable"
        THEN Outcome("ParserError", <<>>, reads)
        ELSE Outcome("none", files[path].rows, reads)

\* extract(file_path): the existence check, the encoding detection, then
\* the read, whole or in chunks; an exception of the read is re-raised
Extract(path, files, a) ==
    LET reads == DetectReads(path, a) \o <<[path |-> path, what |-> "parse"]>>
    IN  IF ~Exists(files[path])
        THEN Outcome("FileNotFoundError", <<>>, <<>>)
        ELSE IF files[path].state = "unreadable"
        THEN Outcome("ParserError", <<>>, reads)
        ELSE IF a.chunk_size # 0
        THEN Outcome("none", Concat(Chunks(files[path].rows, a.chunk_size)),
                     reads)
        ELSE Outcome("none", files[path].rows, reads)

\* df['source_file'] = Path(file_path).name
TagRows(rows, path) ==
    [i \in DOMAIN rows |-> [row |-> rows[i], source_file |-> FileName(path)]]

\* the loop of extract_multiple from dfs and the reads so far on: a file
\* whose extract raises is logged and skipped
RECURSIVE ExtractEach(_, _, _, _, _)
ExtractEach(paths, files, a, dfs, reads) ==
    IF paths = <<>> THEN [dfs |-> dfs, reads |-> reads]
    ELSE LET r == Extract(Head(paths), files, a)
         IN  ExtractEach(Tail(paths), files, a,
                         IF r.raised = "none"
                         THEN Append(dfs, TagRows(r.rows, Head(paths)))
                         ELSE dfs,
                         reads \o r.reads)

\* as extract_multiple, were the try around the loop: the first file that
\* fails ends it
RECURSIVE ExtractMultipleUntilFailure(_, _, _)
ExtractMultipleUntilFailure(paths, files, a) ==
    LET bad == { i \in DOMAIN paths : files[paths[i]].state # "ok" }
        upTo == IF bad = {} THEN Len(paths)
                ELSE (CHOOSE i \in bad : \A j \in bad : i <= j) - 1
        done == ExtractEach(SubSeq(paths, 1, upTo), files, a, <<>>, <<>>)
    IN  IF done.dfs = <<>> THEN Outcome("ValueError", <<>>, done.reads)
        ELSE Outcome("none", Concat(done.dfs), done.reads)

\* extract_multiple(file_paths)
ExtractMultiple(paths, files, a) ==
    LET done == ExtractEach(paths, files, a, <<>>, <<>>)
    IN  IF done.dfs = <<>> THEN Outcome("ValueError", <<>>, done.reads)
        ELSE Outcome("none", Concat(done.dfs), done.reads)

\* the members of a sequence
Members(s) == { s[i] : i \in DOMAIN s }

\* as validate_schema, were extra columns an error too
ValidateSchemaExact(columns, expected_columns) ==
    Members(expected_columns) = Members(columns)

\* validate_schema(df, expected_columns), columns being df.columns
ValidateSchema(columns, expected_columns) ==
    LET missing == Members(expected_columns) \ Members(columns)
    IN  missing = {}

\* the paths, the files behind them and the settings of the extractor
\* (chunk_size 0 stands for None)
CsvPaths == {<<"raw", "a.csv">>, <<"raw", "b.csv">>}

CsvFiles ==
    {NoFile, BadFile}
        \cup { CsvFile(rows) : rows \in SeqsUpTo(1..2, MaxCsvRows) }

CsvSettings == [chunk_size : 0..2, encoding_given : BOOLEAN]

\* the column names of the frames validate_schema is given, and the lists
\* of expected columns
SchemaColumns ==
    { s \in SeqsUpTo({"id", "name", "value"}, 3) :
        \A i, j \in DOMAIN s : (i # j) => s[i] # s[j] }

ExpectedColumns == SeqsUpTo({"id", "name", "missing"}, 2)

NoOutcome == [done |-> FALSE, raised |-> "none", rows |-> <<>>, value |-> FALSE]

CsvIdle ==
    /\ cxOp = "none"
    /\ cxArgs = <<>>
    /\ cxFiles = <<>>
    /\ cxDf = <<>>
    /\ cxReads = <<>>
    /\ cxOut = NoOutcome

InitExtract ==
    /\ cxOp = "extract"
    /\ \E path \in CsvPaths, a \in CsvSettings :
          cxArgs = [path |-> path, settings |-> a]
    /\ cxFiles \in [CsvPaths -> CsvFiles]
    /\ cxDf = <<>>

InitExtractMultiple ==
    /\ cxOp = "extract_multiple"
    /\ \E paths \in SeqsUpTo(CsvPaths, MaxFiles), a \in CsvSettings :
          cxArgs = [paths |-> paths, settings |-> a]
    /\ cxFiles \in [CsvPaths -> CsvFiles]
    /\ cxDf = <<>>

InitValidateSchema ==
    /\ cxOp = "validate_schema"
    /\ cxDf \in SchemaColumns
    /\ \E e \in ExpectedColumns : cxArgs = [df |-> cxDf, expected_columns |-> e]
    /\ cxFiles = <<>>

InitCsv ==
    /\ \/ InitExtract
       \/ InitExtractMultiple
       \/ InitValidateSchema
    /\ cxReads = <<>>
    /\ cxOut = NoOutcome

\* what the finished call is recorded as
Finished(r, value) ==
    [done |-> TRUE, raised |-> r.raised, rows |-> r.rows, value |-> value]

\* csv_extractor.extract(file_path)
CallExtract ==
    /\ cxOp = "extract"
    /\ ~cxOut.done
    /\ LET r == Extract(cxArgs.path, cxFiles, cxArgs.settings)
       IN  /\ cxOut' = Finished(r, FALSE)
           /\ cxReads' = r.reads
    /\ UNCHANGED <<cxOp, cxArgs, cxFiles, cxDf>>
    /\ UNCHANGED notCsv

\* csv_extractor.extract_multiple(file_paths)
CallExtractMultiple ==
    /\ cxOp = "extract_multiple"
    /\ ~cxOut.done
    /\ LET r == ExtractMultiple(cxArgs.paths, cxFiles, cxArgs.settings)
       IN  /\ cxOut' = Finished(r, FALSE)
           /\ cxReads' = r.reads
    /\ UNCHANGED <<cxOp, cxArgs, cxFiles, cxDf>>
    /\ UNCHANGED notCsv

\* csv_extractor.validate_schema(df, expected_columns)
CallValidateSchema ==
    /\ cxOp = "validate_schema"
    /\ ~cxOut.done
    /\ cxOut' = [done |-> TRUE, raised |-> "none", rows |-> <<>>,
                 value |-> ValidateSchema(cxDf, cxArgs.expected_columns)]
    /\ UNCHANGED <<cxOp, cxArgs, cxFiles, cxDf, cxReads>>
    /\ UNCHANGED notCsv

NextCsv ==
    \/ CallExtract
    \/ CallExtractMultiple
    \/ CallValidateSchema

(***************************************************************************)
(* The scheduled DAG etl_daily_pipeline (airflow/dags/etl_daily.py).        *)
(***************************************************************************)
\* 'retries': 2 in default_args
DagRetries == 2

Tasks == {"check_data_freshness", "extract_csv", "extract_api", "transform",
          "load_to_warehouse", "send_notification"}

\* as Upstream, were extract_api not upstream of transform
UpstreamCsvOnly(t) ==
    CASE t = "check_data_freshness" -> {}
      [] t \in {"extract_csv", "extract_api"} -> {"check_data_freshness"}
      [] t = "transform" -> {"extract_csv"}
      [] t = "load_to_warehouse" -> {"transform"}
      [] t = "send_notification" -> {"load_to_warehouse"}

\* the tasks directly upstream of t:
\*   check_freshness >> [extract_csv, extract_api]
\*   [extract_csv, extract_api] >> transform
\*   transform >> load_to_warehouse_task >> notify_success
Upstream(t) ==
    CASE t = "check_data_freshness" -> {}
      [] t \in {"extract_csv", "extract_api"} -> {"check_data_freshness"}
      [] t = "transform" -> {"extract_csv", "extract_api"}
      [] t = "load_to_warehouse" -> {"transform"}
      [] t = "send_notification" -> {"load_to_warehouse"}

\* the trigger rule of every task is the default, all_success
CanRun(t) == \A u \in Upstream(t) : taskState[u] = "success"

\* an upstream task has ended without success
UpstreamLost(t) ==
    \E u \in Upstream(t) : taskState[u] \in {"failed", "upstream_failed"}

\* a DAG run is created: no task instance has a state yet
InitDag ==
    /\ taskState = [t \in Tasks |-> "none"]
    /\ tries = [t \in Tasks |-> 0]

DagIdle ==
    /\ taskState = <<>>
    /\ tries = <<>>

\* the scheduler starts task t, for the first time or after a retry delay
TaskStarts(t) ==
    /\ taskState[t] \in {"none", "up_for_retry"}
    /\ CanRun(t)
    /\ taskState' = [taskState EXCEPT ![t] = "running"]
    /\ tries' = [tries EXCEPT ![t] = @ + 1]
    /\ UNCHANGED notDag

\* the callable of task t returns
TaskSucceeds(t) ==
    /\ taskState[t] = "running"
    /\ taskState' = [taskState EXCEPT ![t] = "success"]
    /\ UNCHANGED tries
    /\ UNCHANGED notDag

\* the callable of task t raises: the task is retried while it has retries
\* left and fails after them
TaskFails(t) ==
    /\ taskState[t] = "running"
    /\ taskState' = [taskState EXCEPT ![t] =
                        IF tries[t] <= DagRetries THEN "up_for_retry"
                        ELSE "failed"]
    /\ UNCHANGED tries
    /\ UNCHANGED notDag

\* the scheduler gives up task t, an upstream task of which has failed
TaskUpstreamFailed(t) ==
    /\ taskState[t] = "none"
    /\ UpstreamLost(t)
    /\ taskState' = [taskState EXCEPT ![t] = "upstream_failed"]
    /\ UNCHANGED tries
    /\ UNCHANGED notDag

NextDag ==
    \/ \E t \in Tasks : TaskStarts(t)
    \/ \E t \in Tasks : TaskSucceeds(t)
    \/ \E t \in Tasks : TaskFails(t)
    \/ \E t \in Tasks : TaskUpstreamFailed(t)

(***************************************************************************)
(* Specifications.                                                          *)
(***************************************************************************)
\* the API extractor as constructed by the orchestrator, not yet called
ApiIdle ==
    /\ max_retries = DefaultMaxRetries
    /\ apc = "idle"
    /\ params = [page |-> Absent, offset |-> Absent, q |-> "x"]
    /\ attempt = 0
    /\ pageRequests = 0
    /\ fetches = 0
    /\ waited = 0
    /\ lastWait = 0
    /\ lastErr = "none"
    /\ response = NoneResponse
    /\ pageData = <<>>
    /\ api_all_data = <<>>
    /\ apiResult = "none"
    /\ failedAt = "none"
    /\ returned = NoList
    /\ pagedT = 0

\* the orchestrator constructed, run not called
RunIdle ==
    /\ source = "None"
    /\ csvFiles = 0
    /\ pc = "ready"
    /\ fileIdx = 0
    /\ all_data = <<>>
    /\ raw_data = [kind |-> "unset", rows |-> 0]
    /\ transformed = [kind |-> "unset", rows |-> 0]
    /\ rows_loaded = -1
    /\ events = <<>>
    /\ log = {}
    /\ csvReturned = <<>>
    /\ apiReturned = -1
    /\ sinkWrites = 0
    /\ raisedAt = "none"
    /\ result = "none"

Init ==
    InitRun /\ ApiIdle /\ FnIdle /\ LoadIdle /\ TfIdle /\ CsvIdle /\ DagIdle
Next == NextRun
Spec == Init /\ [][Next]_vars

InitApiCall ==
    RunIdle /\ InitApi /\ FnIdle /\ LoadIdle /\ TfIdle /\ CsvIdle /\ DagIdle
SpecApi == InitApiCall /\ [][NextApi]_vars

\* every step of extract is a step of one sequential Python call: it is
\* taken as soon as it can be
FairSpecApi == SpecApi /\ WF_vars(NextApi)

InitFnCall ==
    RunIdle /\ ApiIdle /\ InitFn /\ LoadIdle /\ TfIdle /\ CsvIdle /\ DagIdle
SpecFn == InitFnCall /\ [][NextFn]_vars

InitLoadCall ==
    RunIdle /\ ApiIdle /\ FnIdle /\ InitLoad /\ TfIdle /\ CsvIdle /\ DagIdle
SpecLoad == InitLoadCall /\ [][NextLoad]_vars

InitTfCall ==
    RunIdle /\ ApiIdle /\ FnIdle /\ LoadIdle /\ InitTf /\ CsvIdle /\ DagIdle
SpecTf == InitTfCall /\ [][NextTf]_vars

InitCsvCall ==
    RunIdle /\ ApiIdle /\ FnIdle /\ LoadIdle /\ TfIdle /\ InitCsv /\ DagIdle
SpecCsv == InitCsvCall /\ [][NextCsv]_vars

InitDagRun ==
    RunIdle /\ ApiIdle /\ FnIdle /\ LoadIdle /\ TfIdle /\ CsvIdle /\ InitDag
SpecDag == InitDagRun /\ [][NextDag]_vars

(***************************************************************************)
(* Properties of ETLPipeline.run, checked under Spec.                       *)
(***************************************************************************)
\* the position of the first occurrence of ev in events, 0 if none
FirstAt(ev) ==
    IF \E i \in 1..Len(events) : events[i] = ev
    THEN CHOOSE i \in 1..Len(events) :
            /\ events[i] = ev
            /\ \A j \in 1..(i - 1) : events[j] # ev
    ELSE 0

Occurrences(ev) == Cardinality({i \in 1..Len(events) : events[i] = ev})

Happened(ev) == FirstAt(ev) > 0

\* b happened only after a did
Before(a, b) == Happened(b) => (Happened(a) /\ FirstAt(a) < FirstAt(b))

\* C1: whatever the stages do (each returns or raises some Exception), no
\* exception leaves run; run always has a next step until it has returned,
\* and what it returns is True or False.
C1_RunNeverPropagates ==
    /\ result # "propagated"
    /\ pc = "done" => result \in {"True", "False"}
    /\ pc # "done" => (result = "none" /\ ENABLED NextRun)

\* a run in which load raised and run still returned False
C1_Witness ==
    /\ pc = "done"
    /\ raisedAt = "load"
    /\ result = "False"

\* C2: within one run the stages are called in the order extract, transform,
\* load, summary, each at most once, and each only after the stage before
\* it has returned.
C2_StagesInOrder ==
    /\ \A ev \in {"extract.call", "transform.call", "load.call", "summary"} :
          Occurrences(ev) <= 1
    /\ Before("extract.return", "transform.call")
    /\ Before("transform.return", "load.call")
    /\ Before("load.return", "summary")
    /\ Len(events) > 0 => events[1] = "extract.call"

\* a run that went through all four stages
C2_Witness ==
    events = <<"extract.call", "extract.return", "transform.call",
               "transform.return", "load.call", "load.return", "summary">>

\* C3: run returns True exactly when extract returned a non-empty record
\* set and transform and load both returned; after transform raised load is
\* never called; after transform or load raised run returns False and the
\* success summary is never reached.
C3_TrueIffAllStagesReturned ==
    /\ pc = "done" =>
          (result = "True" <=>
              /\ Happened("extract.return")
              /\ raw_data.kind = "frame" /\ raw_data.rows > 0
              /\ Happened("transform.return")
              /\ Happened("load.return"))
    /\ result = "True" => pc = "done"
    /\ Happened("transform.raise") => ~Happened("load.call")
    /\ (Happened("transform.raise") \/ Happened("load.raise")) =>
          /\ ~Happened("summary")
          /\ result # "True"
          /\ pc = "done" /\ result = "False"

\* a run that returned True
C3_Witness ==
    /\ result = "True"
    /\ rows_loaded >= 1

\* C4: when extract returned nothing or a frame of zero rows, run returns
\* False, transform and load are never called and the sink is not written.
C4_NoDataAborts ==
    (raw_data.kind # "unset" /\ (raw_data.kind = "None" \/ raw_data.rows = 0))
        => /\ ~Happened("transform.call")
           /\ ~Happened("load.call")
           /\ sinkWrites = 0
           /\ pc \in {"run_check", "done"}
           /\ pc = "done" => result = "False"

\* a run aborted on a frame that exists and has no rows
C4_Witness ==
    /\ pc = "done"
    /\ raw_data.kind = "frame"
    /\ raw_data.rows = 0
    /\ result = "False"

RECURSIVE CsvRows(_)
\* the rows of the CSV frames of a list of frames, in order
CsvRows(frames) ==
    IF frames = <<>> THEN <<>>
    ELSE IF Head(frames).src = "csv"
         THEN <<Head(frames).rows>> \o CsvRows(Tail(frames))
         ELSE CsvRows(Tail(frames))

\* extract has left both source blocks
PastSources == pc \in {"combine", "run_check", "transform", "load",
                       "summary", "done"}

\* C5: with both sources selected, after a CSV failure the API extractor
\* still runs and its records are in the merged list, after an API failure
\* the frames the CSV extractor returned are still in the merged list, and
\* neither failure makes extract raise.
C5_SourceFailuresIsolated ==
    /\ raisedAt \notin {"extract_csv", "extract_api"}
    /\ (source = "None" /\ PastSources) =>
          /\ apiReturned # -1
          /\ CsvRows(all_data) = csvReturned
          /\ apiReturned >= 0 =>
                all_data[Len(all_data)] =
                    [src |-> "api", file |-> 0, rows |-> apiReturned]
          /\ apiReturned = -2 => Len(all_data) = Len(csvReturned)

\* the CSV block failed after reading a file, the API block contributed, and
\* the run went on to succeed
C5_Witness ==
    /\ source = "None"
    /\ "csv_failed" \in log
    /\ Len(csvReturned) = 1
    /\ apiReturned = 1
    /\ Len(all_data) = 2
    /\ result = "True"

(***************************************************************************)
(* Properties of APIExtractor.extract, checked under SpecApi and            *)
(* FairSpecApi.                                                             *)
(***************************************************************************)
\* the current _make_request call has returned a response
FetchSucceeded == apc \in {"parse", "check"} /\ response.kind # "none"

\* C6: with max_retries = M >= 1, each page fetch starts its attempt counter
\* at 0, issues one request per attempt, goes on to the next attempt after
\* each of k < M failures, so that a success after k failures has cost
\* exactly k + 1 requests, and never issues more than M requests.
C6_RetryWithinBudget ==
    max_retries >= 1 =>
        /\ pageRequests <= max_retries
        /\ apc = "request" =>
              /\ pageRequests = attempt
              /\ attempt < max_retries
              /\ ENABLED AttemptSucceeds
        /\ FetchSucceeded => pageRequests = attempt + 1

\* the second page of an extraction with max_retries = 3 fails twice and
\* then succeeds: 3 requests for that page
C6_Witness ==
    /\ max_retries = 3
    /\ fetches = 2
    /\ FetchSucceeded
    /\ attempt = 2
    /\ pageRequests = 3

\* C7: a page fetch fails only when all M attempts failed, after exactly M
\* requests and with the error of the last attempt; extract then raises that
\* error and returns no list, whatever earlier pages contributed.
C7_ExhaustionFailsExtract ==
    /\ failedAt = "fetch" =>
          /\ apc = "done"
          /\ pageRequests = max_retries
          /\ attempt = max_retries - 1
          /\ apiResult = lastErr
          /\ apiResult \in RequestErrors
          /\ returned = NoList
    /\ (max_retries >= 1 /\ apc = "request") => pageRequests < max_retries
    /\ apiResult = "returned" => failedAt = "none"

\* the second page exhausts 3 attempts after the first page gave a record
C7_Witness ==
    /\ failedAt = "fetch"
    /\ max_retries = 3
    /\ fetches = 2
    /\ Len(api_all_data) >= 1
    /\ returned = NoList

\* C8: the wait after failed attempt i (from 0) is 2^i when another attempt
\* follows and there is none after the last attempt: before attempt a the
\* fetch has waited 2^a - 1 in all, and a fetch that exhausts M attempts has
\* waited 2^(M-1) - 1.
C8_ExponentialBackoff ==
    /\ apc = "request" =>
          /\ waited = 2^attempt - 1
          /\ attempt > 0 => lastWait = 2^(attempt - 1)
          /\ attempt = 0 => lastWait = 0
    /\ failedAt = "fetch" =>
          /\ waited = 2^(max_retries - 1) - 1
          /\ max_retries > 1 => lastWait = 2^(max_retries - 2)

\* a fetch that exhausted 3 attempts waited 1 + 2
C8_Witness ==
    /\ failedAt = "fetch"
    /\ max_retries = 3
    /\ lastWait = 2
    /\ waited = 3

RECURSIVE Flatten(_)
Flatten(lists) ==
    IF lists = <<>> THEN <<>> ELSE Head(lists) \o Flatten(Tail(lists))

RECURSIVE SumLen(_)
SumLen(lists) ==
    IF lists = <<>> THEN 0 ELSE Len(Head(lists)) + SumLen(Tail(lists))

\* C9: against a source that answers request N with page = N and
\* total_pages = T, every request succeeding, extract issues exactly T
\* requests (T page fetches of one request each), request N + 1 carries
\* page = N + 1, and the returned list is the per-page record lists
\* concatenated in page order.
C9_PagedTraversal ==
    pagedT >= 1 =>
        /\ fetches <= pagedT
        /\ attempt = 0 /\ pageRequests <= 1
        /\ (apc = "request" /\ fetches > 1) =>
              /\ params.page = IntV(response.page.v + 1)
              /\ params.page = IntV(fetches)
        /\ apiResult = "returned" =>
              /\ fetches = pagedT /\ pageRequests = 1
              /\ Len(pageData) = pagedT
              /\ \A i \in 1..Len(pageData) :
                    pageData[i] = Records(i, "data", Len(pageData[i]))
              /\ returned.some
              /\ returned.data = Flatten(pageData)
              /\ Len(returned.data) = SumLen(pageData)
        /\ apc = "done" => apiResult = "returned"

\* three pages of one record each were traversed with 3 requests
C9_Witness ==
    /\ pagedT = 3
    /\ apiResult = "returned"
    /\ fetches = 3
    /\ Len(returned.data) = 3

\* a response carries a continuation signal: an object body with a non-null
\* next, a non-null next_page, or page (0 if missing) below total_pages (0
\* if missing)
Signal(resp) ==
    /\ resp.kind = "object"
    /\ \/ resp.next
       \/ resp.next_page
       \/ /\ resp.page.t \in {"absent", "int"}
          /\ resp.total_pages.t \in {"absent", "int"}
          /\ resp.page.v < resp.total_pages.v

\* the model follows an extraction for MaxFetches page fetches only
AtHorizon == apc = "check" /\ Signal(response) /\ fetches = MaxFetches

C10_Halts ==
    /\ apc = "done" => (failedAt = "fetch" \/ ~Signal(response))
    /\ apiResult = "returned" => ~Signal(response)
    /\ (apc = "check" /\ ~Signal(response)) =>
          (ENABLED ExtractReturns /\ ~ENABLED NextPage)
    /\ (apc = "check" /\ Signal(response)) =>
          /\ ~ENABLED ExtractReturns
          /\ fetches < MaxFetches => ENABLED NextPage
    /\ (apc \notin {"done", "check"}) => ENABLED NextApi

\* C10: extract stops paginating exactly when a response carries no
\* continuation signal or a page fetch fails; when that happens it ends (a
\* return or a raise), and while every response carries a signal it goes on
\* to the next page, without limit, and does not return.
C10_PaginationHalting ==
    /\ []C10_Halts
    /\ <>(apc = "done" \/ AtHorizon)
    /\ (apc = "check" /\ ~Signal(response)) ~> (apiResult = "returned")

\* extract returned after following two continuation signals
C10_Witness ==
    /\ apiResult = "returned"
    /\ fetches = 3
    /\ ~Signal(response)
    /\ Len(pageData) = 3

\* the response in hand was fetched and its body is not JSON
NonJsonInHand == response.kind = "invalid"

C14_FailsAtOnce ==
    NonJsonInHand =>
        /\ apc \in {"parse", "done"}
        /\ apc = "parse" =>
              /\ ~ENABLED AttemptSucceeds
              /\ ~ENABLED AttemptFails
              /\ ~ENABLED NextPage
              /\ ~ENABLED ExtractReturns
        /\ apc = "done" =>
              /\ apiResult = "JSONDecodeError"
              /\ failedAt = "parse"
              /\ returned = NoList
              /\ Len(pageData) = fetches - 1

\* C14: a successfully fetched response whose body is not parseable JSON
\* makes extract fail immediately: the request is not sent again, no
\* further page is requested, no records are returned.
C14_NonJsonFailsExtract ==
    /\ []C14_FailsAtOnce
    /\ [][NonJsonInHand =>
            /\ pageRequests' = pageRequests
            /\ fetches' = fetches
            /\ response' = response
            /\ apc' = "done"]_vars

\* the second page's body was not JSON and extract raised, returning nothing
C14_Witness ==
    /\ apc = "done"
    /\ NonJsonInHand
    /\ fetches = 2
    /\ Len(pageData) = 1
    /\ apiResult = "JSONDecodeError"
    /\ returned = NoList

\* an object without next or next_page whose page or total_pages is not a
\* number
Incomparable(resp) ==
    /\ resp.kind = "object"
    /\ ~resp.next /\ ~resp.next_page
    /\ resp.page.t = "null" \/ resp.total_pages.t = "null"

\* C15: a page whose body cannot be interpreted when _has_next_page looks
\* at it (not readable as JSON at that point, or page and total_pages not
\* comparable) ends pagination without error: extract returns the records
\* accumulated so far, that page's included, and sends no further request.
C15_UninterpretableEndsPagination ==
    /\ ~HasNextPage(PlainBody("invalid", 0))
    /\ Incomparable(response) =>
          /\ apc \in {"parse", "check", "done"}
          /\ apc = "check" => (ENABLED ExtractReturns /\ ~ENABLED NextPage)
          /\ apc = "done" =>
                /\ apiResult = "returned"
                /\ failedAt = "none"
                /\ Len(pageData) = fetches
                /\ pageData[fetches] = ParseResponse(response, fetches).data
                /\ returned = [some |-> TRUE, data |-> Flatten(pageData)]

\* the second page had a total_pages that is no number; extract returned
\* both pages' records
C15_Witness ==
    /\ apc = "done"
    /\ Incomparable(response)
    /\ fetches = 2
    /\ apiResult = "returned"
    /\ Len(returned.data) = 2

(***************************************************************************)
(* Properties of the response-interpreting methods, checked under SpecFn.   *)
(***************************************************************************)
\* key number i of ContainerKeys holds an array in body b and no earlier
\* key does
FirstArrayAt(b, i) ==
    /\ b.keys[ContainerKeys[i]] = "array"
    /\ \A j \in 1..(i - 1) : b.keys[ContainerKeys[j]] # "array"

\* C11: _parse_response returns the array itself for an array body; for an
\* object body the value of the first of data, results, items, records
\* that is present and holds an array, a present key holding something else
\* being passed over; the object as a one-element list when there is no such
\* key; and the empty list, without error, for any other JSON value.
C11_ResponseNormalization ==
    (fnCalled = "_parse_response" /\ fnBody.kind # "invalid") =>
        /\ fnParsed.ok
        /\ fnBody.kind = "array" =>
              fnParsed.data = Records(fnNo, "root", fnBody.n)
        /\ fnBody.kind = "object" =>
              /\ \A i \in 1..Len(ContainerKeys) :
                    FirstArrayAt(fnBody, i) =>
                        fnParsed.data =
                            Records(fnNo, ContainerKeys[i], fnBody.n)
              /\ (\A i \in 1..Len(ContainerKeys) : ~FirstArrayAt(fnBody, i))
                    => fnParsed.data = <<<<fnNo, "self", 1>>>>
        /\ fnBody.kind = "other" => fnParsed.data = <<>>

\* an object whose data is not an array and whose items is one was
\* normalised to the items array
C11_Witness ==
    /\ fnCalled = "_parse_response"
    /\ fnBody.kind = "object"
    /\ fnBody.keys["data"] = "scalar"
    /\ fnBody.keys["results"] = "absent"
    /\ fnBody.keys["items"] = "array"
    /\ fnBody.n = 1
    /\ fnParsed.ok
    /\ fnParsed.data = <<<<fnNo, "items", 1>>>>

\* page, 0 when absent, is a number strictly less than total_pages, 0 when
\* absent
PageBelowTotal(b) ==
    LET p == IF b.page.t = "absent" THEN 0 ELSE b.page.v
        t == IF b.total_pages.t = "absent" THEN 0 ELSE b.total_pages.v
    IN  /\ b.page.t # "null"
        /\ b.total_pages.t # "null"
        /\ p < t

\* C12: _has_next_page answers true exactly when the body is an object and
\* next is non-null, or next_page is non-null, or page (0 when absent) is
\* strictly less than total_pages (0 when absent); never for an array body,
\* and not when page equals total_pages.
C12_ContinuationSignal ==
    fnCalled = "_has_next_page" =>
        /\ fnHasNext <=>
              /\ fnBody.kind = "object"
              /\ fnBody.next \/ fnBody.next_page \/ PageBelowTotal(fnBody)
        /\ fnBody.kind = "array" => ~fnHasNext
        /\ ( /\ fnBody.kind = "object"
             /\ ~fnBody.next /\ ~fnBody.next_page
             /\ fnBody.page.t = "int"
             /\ fnBody.page = fnBody.total_pages ) => ~fnHasNext

\* a body with page below total_pages and no link was found to continue
C12_Witness ==
    /\ fnCalled = "_has_next_page"
    /\ fnBody.kind = "object"
    /\ ~fnBody.next /\ ~fnBody.next_page
    /\ fnBody.page = IntV(1)
    /\ fnBody.total_pages = IntV(2)
    /\ fnHasNext

\* the limit offset advances by: the body's, 100 when the body has none
LimitOf(b) == IF b.limit.t = "absent" THEN IntV(100) ELSE b.limit

\* C13: when pagination continues, the next request's parameters are the
\* previous ones except that page becomes the body's page + 1 if the body
\* has a page, and otherwise offset becomes the body's offset + limit (100
\* when limit is absent) if the body has an offset; with both, only page
\* changes.  Read for numeric page, offset and limit: with a page, or
\* without a page an offset or limit, that is present and not a number the
\* parameters stay as they were.
C13_NextPageParams ==
    (fnCalled = "_get_next_page_params" /\ HasNextPage(fnBody)) =>
        IF fnBody.page.t # "absent"
        THEN IF fnBody.page.t = "int"
             THEN fnParams = [fnCur EXCEPT !.page = IntV(fnBody.page.v + 1)]
             ELSE fnParams = fnCur
        ELSE IF fnBody.offset.t # "absent"
        THEN IF fnBody.offset.t = "int" /\ LimitOf(fnBody).t = "int"
             THEN fnParams =
                    [fnCur EXCEPT
                       !.offset = IntV(fnBody.offset.v + LimitOf(fnBody).v)]
             ELSE fnParams = fnCur
        ELSE fnParams = fnCur

\* a continuing body with both page and offset changed only page
C13_Witness ==
    /\ fnCalled = "_get_next_page_params"
    /\ HasNextPage(fnBody)
    /\ fnBody.page = IntV(2)
    /\ fnBody.offset = IntV(5)
    /\ fnCur.page = IntV(1)
    /\ fnCur.offset = IntV(0)
    /\ fnParams.page = IntV(3)
    /\ fnParams.offset = IntV(0)

(***************************************************************************)
(* Properties of DatabaseLoader.load, checked under SpecLoad.               *)
(***************************************************************************)
\* the outcome of the call of load that finished last
LastLoad == loadResults[Len(loadResults)]

UpsertSteps == {"stage", "merge", "drop"}

\* C16: if a step of an upsert load fails (staging the record set in the
\* temporary table, the merge statement, or dropping the temporary table),
\* the target table is exactly what it was before the call, and no
\* transaction is open when load raises.
C16_FailedUpsertKeepsTarget ==
    (strategy = "upsert" /\ lpc = "done") =>
        /\ LastLoad.res # "returned" => ~txOpen
        /\ LastLoad.at \in UpsertSteps =>
              /\ LastLoad.res # "returned"
              /\ tables[Target] = tablesBefore[Target]

\* the drop failed after a merge that had changed the target, and the
\* target is as before the call
C16_Witness ==
    /\ strategy = "upsert"
    /\ lpc = "done"
    /\ LastLoad.at = "drop"
    /\ LastLoad.res = "SQLAlchemyError"
    /\ ~txOpen
    /\ tables[TempTable].exists
    /\ Upsert(tables[Target], tables[TempTable], key_columns)
          # tables[Target]
    /\ tables[Target] = tablesBefore[Target]

\* C17: staging, merge and drop of an upsert load happen inside one
\* transaction scope, so after the call, succeeded or failed, no temporary
\* table <table>_temp created by the call exists in the sink.
C17_NoTempTableLeft ==
    (strategy = "upsert" /\ lpc = "done"
        /\ ~tablesBefore[TempTable].exists) =>
        ~tables[TempTable].exists

\* the rows of the sequence whose key column holds k
RowsWithKey(rows, k) == { i \in DOMAIN rows : rows[i].id = k }

\* the value the record set gives the non-key column for key k last
LastValue(frame, k) ==
    frame[CHOOSE i \in RowsWithKey(frame, k) :
            \A j \in RowsWithKey(frame, k) : j <= i].name

\* C18: for every record set and a fixed key column, loading the record
\* set twice with strategy upsert succeeds both times and leaves a target
\* table with exactly one row per distinct key value of the record set,
\* whose non-key column has the value of the second load.  Stated for a
\* sink that executes every statement it can and whose target table has a
\* unique constraint on the key column.
C18_UpsertTwice ==
    ( /\ strategy = "upsert"
      /\ lpc = "done"
      /\ loads = 2
      /\ ~fault
      /\ tables[Target].exists
      /\ tables[Target].unique = key_columns ) =>
        /\ \A n \in 1..2 : loadResults[n].res = "returned"
        /\ \A k \in { df[i].id : i \in DOMAIN df } :
              /\ Cardinality(RowsWithKey(tables[Target].rows, k)) = 1
              /\ \A i \in RowsWithKey(tables[Target].rows, k) :
                    tables[Target].rows[i].name = LastValue(df, k)

\* C19: the key columns of an upsert load are those the caller of load
\* chose, the record set's first column only when the caller gave none;
\* on a key conflict every non-key column of the existing row takes the
\* incoming value and the key columns stay as they are.
C19_CallerChoosesKeys ==
    (strategy = "upsert" /\ lpc \in UpsertSteps \cup {"index", "done"}) =>
        /\ key_columns =
              IF wantKeys = NoKeyColumns THEN {Columns[1]} ELSE wantKeys
        /\ lpc = "drop" =>
              \A i \in DOMAIN txSnapshot[Target].rows :
                 \A j \in DOMAIN tables[TempTable].rows :
                    LET old == txSnapshot[Target].rows[i]
                        new == tables[TempTable].rows[j]
                    IN  SameKey(old, new, key_columns) =>
                           tables[Target].rows[i] =
                              [c \in {"id", "name"} |->
                                 IF c \in key_columns THEN Col(old, c)
                                 ELSE Col(new, c)]

\* C20: load called with a strategy other than append, replace and upsert
\* fails with the unknown-strategy error before any effect on the sink: no
\* table is created, dropped or written and no index is created, also when
\* index columns were requested.
C20_UnknownStrategyNoEffect ==
    (strategy \notin {"append", "replace", "upsert"}) =>
        /\ lpc \in {"idle", "done"}
        /\ tables = tablesBefore
        /\ indexes = indexesBefore
        /\ ~txOpen
        /\ lpc = "done" =>
              LastLoad = [res |-> "ValueError", at |-> "dispatch",
                          rows |-> -1]

\* load was called with strategy "merge" and an index column and raised
\* ValueError
C20_Witness ==
    /\ strategy = "merge"
    /\ create_index = <<"id">>
    /\ df # <<>>
    /\ lpc = "done"
    /\ LastLoad.res = "ValueError"
    /\ tables = tablesBefore
    /\ indexes = {}

\* C21: a replace load is atomic: after it succeeds the target table holds
\* exactly the record set's rows and none of the prior rows, and if it
\* fails the target table still exists with its prior contents; no dropped
\* or partly filled table is left behind.
C21_ReplaceAtomic ==
    (strategy = "replace" /\ lpc \in {"index", "done"}) =>
        IF lpc = "done" /\ LastLoad.at = "replace"
        THEN tables[Target] = tablesBefore[Target]
        ELSE tables[Target].exists /\ tables[Target].rows = df

\* every row of the record set is a row of the target table
RowsWritten ==
    /\ tables[Target].exists
    /\ \A i \in DOMAIN df :
          \E j \in DOMAIN tables[Target].rows :
             tables[Target].rows[j] = df[i]

\* C22: when the index creation after a load fails, the rows the load
\* wrote remain committed in the target table; asking for an index that
\* exists already is a no-op that does not fail, so a repeated load with
\* the same index columns never fails because of the indexes.
C22_IndexFailureKeepsRows ==
    /\ (lpc = "done" /\ LastLoad.at = "index") =>
          /\ RowsWritten
          /\ ~txOpen
          /\ fault
    /\ (lpc = "index" /\ create_index # <<>>) => ENABLED IndexesOk

\* the second of two loads with an index column wrote its rows and then
\* failed in the index creation, the index being there since the first
C22_Witness ==
    /\ lpc = "done"
    /\ loads = 2
    /\ loadResults[1].res = "returned"
    /\ IndexNames(create_index) # {}
    /\ IndexNames(create_index) \subseteq indexes
    /\ LastLoad.at = "index"
    /\ df # <<>>
    /\ RowsWritten

(***************************************************************************)
(* Properties of DataTransformer, checked under SpecTf.                     *)
(***************************************************************************)
\* the frame the first call returned
TfOut == tfOuts[1].frame

\* the position in frame f of the column named as column c of frame g
SameColumn(f, g, c) ==
    CHOOSE k \in DOMAIN f.cols : f.cols[k].name = g.cols[c].name

\* row r of frame g is, in the columns g has, row q of frame f
SameContent(g, r, f, q) ==
    \A c \in DOMAIN g.cols : r[c] = q[SameColumn(f, g, c)]

\* C23: for every record set, null policy and null threshold, the output
\* of clean with remove_duplicates=true has no two identical rows, and
\* every row of it is by content a row of the input.
C23_CleanNoDuplicates ==
    (tfOp = "clean" /\ tfCalls = 1 /\ tfArgs.remove_duplicates) =>
        /\ \A i, j \in DOMAIN TfOut.rows :
              (i # j) => TfOut.rows[i] # TfOut.rows[j]
        /\ \A i \in DOMAIN TfOut.rows :
              \E j \in DOMAIN tfGiven.rows :
                 SameContent(TfOut, TfOut.rows[i], tfGiven, tfGiven.rows[j])

\* no cell of the columns of the given dtypes is null
NoNullIn(f, dtypes) ==
    \A i \in DOMAIN f.rows : \A c \in DOMAIN f.cols :
        f.cols[c].dtype \in dtypes => f.rows[i][c].t # "null"

\* C24: after clean, with drop the output has no null and is exactly the
\* rows without null in a retained column, in input order; with keep no
\* value is changed; with fill the fill step keeps the row count and puts
\* for every null of a numeric column the median of the column's non-null
\* values after duplicate removal, for every null of a text column its
\* most frequent value, or "Unknown" when the column is entirely null, so
\* that no null remains in numeric, text or timestamp columns.
C24_CleanNullPolicies ==
    (tfOp = "clean" /\ tfCalls = 1) =>
        LET g == CleanPruned(tfGiven, tfArgs)
            vals(c) == ColValues(g.rows, c)
        IN  /\ TfOut.cols = g.cols
            /\ tfArgs.handle_nulls = "drop" =>
                  /\ NoNullIn(TfOut, {"float64", "object", "datetime64[ns]"})
                  /\ TfOut.rows =
                        SelectSeq(g.rows,
                                  LAMBDA r : \A c \in DOMAIN r :
                                                r[c].t # "null")
            /\ tfArgs.handle_nulls = "keep" => TfOut.rows = g.rows
            /\ tfArgs.handle_nulls = "fill" =>
                  /\ Len(TfOut.rows) = Len(g.rows)
                  /\ \A i \in DOMAIN g.rows : \A c \in DOMAIN g.cols :
                        IF g.rows[i][c].t # "null"
                        THEN TfOut.rows[i][c] = g.rows[i][c]
                        ELSE IF g.cols[c].dtype = "float64"
                        THEN TfOut.rows[i][c] = Num(Median(vals(c)))
                        ELSE IF g.cols[c].dtype = "object"
                        THEN TfOut.rows[i][c] =
                                IF vals(c) = <<>> THEN Unknown
                                ELSE Str(Mode(vals(c)))
                        ELSE TRUE
                  /\ NoNullIn(TfOut, {"float64", "object", "datetime64[ns]"})

\* the column names of a frame, in column order
ColumnNames(f) == [i \in DOMAIN f.cols |-> f.cols[i].name]

\* standardize_columns was applied, and applied again to its result
StandardizedTwice == tfOp = "standardize_columns" /\ tfCalls = 2

\* C25 as stated: for every record set, flags and rename map, applying
\* standardize_columns twice with the same arguments yields the column
\* names that applying it once yields.
C25_StandardizeTwice ==
    StandardizedTwice =>
        ColumnNames(tfOuts[2].frame) = ColumnNames(tfOuts[1].frame)

\* no column name that the first application produced is a key of the map
NoProducedNameIsKey ==
    \A i \in DOMAIN tfOuts[1].frame.cols :
        tfOuts[1].frame.cols[i].name \notin DOMAIN tfArgs.rename_map

\* C25 amended: applying standardize_columns twice with the same arguments
\* yields the column names that applying it once yields, provided that,
\* when a rename map is given, no column name produced by the first
\* application is a key of the map.
C25_StandardizeTwiceUnlessRenamedAgain ==
    (StandardizedTwice /\ NoProducedNameIsKey) =>
        ColumnNames(tfOuts[2].frame) = ColumnNames(tfOuts[1].frame)

\* a rename map that renamed a column was given, both flags are set, and
\* the first application changed the names
C25_Witness ==
    /\ StandardizedTwice
    /\ NoProducedNameIsKey
    /\ tfArgs.to_lowercase /\ tfArgs.replace_spaces
    /\ \E i \in DOMAIN tfGiven.cols :
          tfGiven.cols[i].name \in DOMAIN tfArgs.rename_map
    /\ ColumnNames(tfOuts[1].frame) # ColumnNames(tfGiven)
    /\ ColumnNames(tfOuts[2].frame) = ColumnNames(tfOuts[1].frame)

\* the record-set invariant: every row has one cell for each column, that
\* is, all columns have the same length, and no two columns share a name
WellFormed(f) ==
    /\ \A i \in DOMAIN f.rows : Len(f.rows[i]) = Len(f.cols)
    /\ \A i, j \in DOMAIN f.cols :
          (i # j) => f.cols[i].name # f.cols[j].name

\* the columns of g that f has too, by name, stand in g in the order they
\* have in f
KeepsColumnOrder(f, g) ==
    LET in(h) == { h.cols[i].name : i \in DOMAIN h.cols }
    IN  SelectSeq(ColumnNames(g), LAMBDA n : n \in in(f)) =
            SelectSeq(ColumnNames(f), LAMBDA n : n \in in(g))

\* C26: every record set that clean, standardize_columns, convert_types or
\* add_derived_columns returns satisfies the record-set invariant whenever
\* the input did: all columns have the same length, the column names are
\* pairwise distinct, and surviving columns keep their relative order.
C26_RecordSetInvariant ==
    (tfOp \in {"clean", "standardize_columns", "convert_types",
               "add_derived_columns"} /\ WellFormed(tfGiven)) =>
        \A k \in DOMAIN tfOuts :
            /\ WellFormed(tfOuts[k].frame)
            /\ IF tfOp = "standardize_columns"
               THEN Len(tfOuts[k].frame.cols) = Len(tfGiven.cols)
               ELSE KeepsColumnOrder(tfGiven, tfOuts[k].frame)

\* convert_types was called and returned
Converted == tfOp = "convert_types" /\ tfCalls = 1

\* the target types the map names for the column of the given name
MappedTo(name) ==
    { tfArgs.type_map[i].dtype :
        i \in { j \in DOMAIN tfArgs.type_map :
                  tfArgs.type_map[j].col = name } }

\* column c of the output is column c of the input, unchanged
ColumnKept(c) ==
    /\ TfOut.cols[c] = tfGiven.cols[c]
    /\ Cells(TfOut, c) = Cells(tfGiven, c)

\* C27: convert_types never raises; a column of the map that the record
\* set does not have is skipped; a column whose conversion fails keeps its
\* previous values while every other mapped column is still converted; a
\* column the map does not name is unchanged.
C27_ConvertTypesIsolatesFailures ==
    Converted =>
        /\ tfOuts[1].raised = "none"
        /\ ColumnNames(TfOut) = ColumnNames(tfGiven)
        /\ Len(TfOut.rows) = Len(tfGiven.rows)
        /\ \A c \in DOMAIN tfGiven.cols :
              IF MappedTo(tfGiven.cols[c].name) = {} THEN ColumnKept(c)
              ELSE \A dt \in MappedTo(tfGiven.cols[c].name) :
                      IF ConversionRaises(Cells(tfGiven, c), dt)
                      THEN ColumnKept(c)
                      ELSE /\ TfOut.cols[c].dtype = ConvertedDtype(dt)
                           /\ \A r \in DOMAIN tfGiven.rows :
                                 TfOut.rows[r][c] =
                                    ConvertedCell(tfGiven.rows[r][c], dt)

\* the map names the absent column x, the conversion of d failed and n,
\* which comes after them in the map, was converted
C27_Witness ==
    /\ Converted
    /\ Len(tfGiven.rows) >= 2
    /\ MappedTo(<<"x">>) # {}
    /\ MappedTo(<<"d">>) = {"datetime"}
    /\ ConversionRaises(Cells(tfGiven, 1), "datetime")
    /\ ColumnKept(1)
    /\ MappedTo(<<"n">>) = {"int"}
    /\ TfOut.cols[2].dtype = "Int64"
    /\ \E r \in DOMAIN TfOut.rows : TfOut.rows[r][2] = Num(10)

\* what a value is as a datetime, an integer or a float: null where it is
\* none
ValueAs(cell, dtype) ==
    IF cell.t # "str" THEN cell
    ELSE IF dtype = "datetime"
    THEN IF cell.v = "2024-01-01" THEN Date(20240101) ELSE NullCell
    ELSE IF cell.v = "10" THEN Num(10)
    ELSE IF cell.v = "1.5" /\ dtype = "float" THEN Frac(1)
    ELSE NullCell

\* C28: for each of the target types datetime, integer and float, a value
\* that cannot be converted becomes null while the values that can are
\* converted; one unconvertible value never leaves the whole column
\* unconverted.
C28_UnconvertibleBecomesNull ==
    Converted =>
        \A c \in DOMAIN tfGiven.cols :
            \A dt \in MappedTo(tfGiven.cols[c].name)
                         \cap {"datetime", "int", "float"} :
                \A r \in DOMAIN tfGiven.rows :
                    TfOut.rows[r][c] = ValueAs(tfGiven.rows[r][c], dt)

\* add_derived_columns was called and returned
Derived == tfOp = "add_derived_columns" /\ tfCalls = 1

\* C29: add_derived_columns never raises; every derivation that succeeds
\* adds its column and one that raises adds nothing; what a derivation
\* does is what it does alone on the input, whether or not another
\* derivation succeeded and whatever the order of evaluation.
C29_DerivationsIndependent ==
    Derived =>
        /\ tfOuts[1].raised = "none"
        /\ \A i \in DOMAIN tfArgs.derivations :
              LET d == tfArgs.derivations[i]
                  c == ColumnAt(TfOut, d.name)
              IN  IF FuncRaises(d.func, tfGiven) THEN c = 0
                  ELSE /\ c # 0
                       /\ Cells(TfOut, c) = FuncValue(d.func, tfGiven)

\* validate_data was called and returned
Validated == tfOp = "validate_data" /\ tfCalls = 1

\* C30: validate_data never raises and returns a mapping whose keys are
\* exactly the names of the checks; a predicate that raises is mapped to
\* false, every other to its result, so that a predicate that raises or
\* fails does not stop the checks after it.
C30_ValidateDataTotal ==
    Validated =>
        /\ tfOuts[1].raised = "none"
        /\ DOMAIN tfOuts[1].results =
              { tfArgs.validations[i].name : i \in DOMAIN tfArgs.validations }
        /\ \A i \in DOMAIN tfArgs.validations :
              LET v == tfArgs.validations[i]
              IN  tfOuts[1].results[v.name] =
                     IF PredicateRaises(v.func, tfGiven) THEN FALSE
                     ELSE PredicateResult(v.func, tfGiven)

\* the first predicate raised and the second, evaluated after it, passed
C30_Witness ==
    /\ Validated
    /\ Len(tfArgs.validations) = 2
    /\ PredicateRaises(tfArgs.validations[1].func, tfGiven)
    /\ tfOuts[1].results[tfArgs.validations[1].name] = FALSE
    /\ tfOuts[1].results[tfArgs.validations[2].name] = TRUE

\* C31: no operation of the transformer modifies the record set it was
\* given: after the call the caller's input has the column names, types
\* and values it had before the call.
C31_InputNotModified ==
    (tfOp # "none" /\ tfCalls >= 1) => tfDf = tfGiven

\* C37: whenever extract continues pagination, the parameters of the next
\* request differ from those of the request just answered, for every
\* continuation signal, a non-null next or next_page in a body without
\* page and offset included.
C37_CursorAdvances ==
    [][NextPage => params' # params]_vars

\* a call of _make_request ends in this step
FetchEnds == apc = "request" /\ apc' # "request"

\* C40: with max_retries >= 1 a page fetch ends only by returning a
\* successful response or by raising the request error of its last
\* attempt; with max_retries = 0 it issues no request and returns no
\* response, and extract fails with an error that is neither a request
\* error nor a parse error.
C40_FetchOutcomes ==
    /\ [][(FetchEnds /\ max_retries >= 1) =>
             \/ /\ apc' = "parse"
                /\ response' \in Bodies(fetches)
                /\ pageRequests' = pageRequests + 1
             \/ /\ apc' = "done"
                /\ attempt = max_retries - 1
                /\ pageRequests' = max_retries
                /\ lastErr' \in RequestErrors
                /\ apiResult' = lastErr']_vars
    /\ [][(FetchEnds /\ max_retries = 0) =>
             /\ pageRequests' = 0
             /\ response' = NoneResponse
             /\ apc' = "parse"]_vars
    /\ [](max_retries = 0 /\ apc = "done" =>
             /\ pageRequests = 0
             /\ failedAt = "parse"
             /\ apiResult \notin RequestErrors \cup {"JSONDecodeError"}
             /\ apiResult \in ApiErrors)

\* extract with max_retries = 0 has failed without a request
C40_Witness ==
    /\ max_retries = 0
    /\ apc = "done"
    /\ pageRequests = 0
    /\ apiResult = "AttributeError"

\* the CSV block of extract has caught the failure of a file
CsvFailed == "csv_failed" \in log

\* C39: in the orchestrator's extract, if reading file k of the configured
\* CSV files fails then the record sets of the files before k are still
\* part of the merged result, the files after k are not read at all, and
\* the API extraction still runs when it is selected.
C39_CsvFailureKeepsEarlierFiles ==
    /\ [](CsvFailed =>
            /\ fileIdx < csvFiles
            /\ pc # "extract_csv"
            /\ Len(csvReturned) = fileIdx
            /\ Len(all_data) >= fileIdx
            /\ \A i \in 1..fileIdx :
                  all_data[i] =
                     [src |-> "csv", file |-> i, rows |-> csvReturned[i]]
            /\ raw_data.kind = "frame" => raw_data.rows = SumRows(all_data)
            /\ ApiSelected(source) =>
                  pc = "extract_api" \/ apiReturned # -1)
    /\ [][CsvFailed =>
             fileIdx' = fileIdx /\ csvReturned' = csvReturned]_vars

\* the second of two files failed, the first is in the merged result that
\* extract returned, and the API extraction has run
C39_Witness ==
    /\ CsvFailed
    /\ csvFiles = 2
    /\ fileIdx = 1
    /\ csvReturned = <<1>>
    /\ source = "None"
    /\ apiReturned = 0
    /\ raw_data = [kind |-> "frame", rows |-> 1]

\* C38: an upsert load into table T reads and writes no other table of the
\* sink: a table that existed before the call under another name, one
\* named T_temp included, exists with the same contents after the call,
\* whether the call succeeded or failed.
C38_UpsertTouchesOnlyTarget ==
    (strategy = "upsert" /\ lpc = "done" /\ tablesBefore[TempTable].exists) =>
        tables[TempTable] = tablesBefore[TempTable]

(***************************************************************************)
(* Properties of CSVExtractor, checked under SpecCsv.                       *)
(***************************************************************************)
\* the file behind the i-th given path could be read
Readable(i) == cxFiles[cxArgs.paths[i]].state = "ok"

\* the rows of the readable files among the paths from the i-th on, each
\* with the name of its file, in the order of the paths
RECURSIVE RowsFrom(_)
RowsFrom(i) ==
    IF i > Len(cxArgs.paths) THEN <<>>
    ELSE LET file == cxFiles[cxArgs.paths[i]]
             name == cxArgs.paths[i][2]
         IN  (IF Readable(i)
              THEN [k \in DOMAIN file.rows |->
                       [row |-> file.rows[k], source_file |-> name]]
              ELSE <<>>) \o RowsFrom(i + 1)

\* C32: extract_multiple returns the concatenation, in the order of the
\* given paths, of the rows of every file that could be read, each row
\* tagged with its file's name; a file that fails to read is skipped; the
\* call fails if and only if every given file failed to read.
C32_ExtractMultipleUnion ==
    (cxOp = "extract_multiple" /\ cxOut.done) =>
        IF \A i \in DOMAIN cxArgs.paths : ~Readable(i)
        THEN cxOut.raised = "ValueError"
        ELSE cxOut.raised = "none" /\ cxOut.rows = RowsFrom(1)

\* the first of two files failed to read and the rows of the second, read
\* in chunks, were returned
C32_Witness ==
    /\ cxOp = "extract_multiple"
    /\ cxOut.done
    /\ Len(cxArgs.paths) = 2
    /\ ~Readable(1)
    /\ Readable(2)
    /\ cxArgs.settings.chunk_size = 1
    /\ Len(cxOut.rows) = 2
    /\ cxOut.raised = "none"

\* C33: extract on a path that does not exist fails with a not-found error
\* before any byte of the file is read, with neither encoding detection
\* nor parse attempted, in the chunked and in the non-chunked mode.
C33_MissingFileNotRead ==
    (cxOp = "extract" /\ cxOut.done
        /\ cxFiles[cxArgs.path].state = "missing") =>
        /\ cxOut.raised = "FileNotFoundError"
        /\ cxReads = <<>>

\* extract in chunked mode, the encoding to be detected, on a missing file
C33_Witness ==
    /\ cxOp = "extract"
    /\ cxOut.done
    /\ cxFiles[cxArgs.path].state = "missing"
    /\ cxArgs.settings.chunk_size > 0
    /\ ~cxArgs.settings.encoding_given
    /\ cxOut.raised = "FileNotFoundError"

\* C34: validate_schema returns true if and only if every expected column
\* name is among the record set's columns; extra columns never make it
\* false, and the record set is not modified by the check.
C34_ValidateSchema ==
    (cxOp = "validate_schema" /\ cxOut.done) =>
        /\ cxOut.value =
              (\A i \in DOMAIN cxArgs.expected_columns :
                  \E j \in DOMAIN cxArgs.df :
                      cxArgs.df[j] = cxArgs.expected_columns[i])
        /\ cxOut.raised = "none"
        /\ cxDf = cxArgs.df

\* a record set with a column that is not expected passed the check
C34_Witness ==
    /\ cxOp = "validate_schema"
    /\ cxOut.done
    /\ cxOut.value
    /\ cxArgs.expected_columns = <<"id", "name">>
    /\ cxArgs.df = <<"id", "value", "name">>

(***************************************************************************)
(* Properties of the scheduled DAG, checked under SpecDag.                  *)
(***************************************************************************)
\* task t has been started at least once
Started(t) == tries[t] > 0

Succeeded(t) == taskState[t] = "success"

\* C36: in the scheduled DAG the two extraction tasks may run in either
\* order or concurrently once the freshness check has completed; the
\* transform task starts only after both extraction tasks have completed,
\* the load task only after transform, and the notification only after
\* load; no interleaving lets transform or load start earlier.
C36_DagOrder ==
    /\ \A t \in {"extract_csv", "extract_api"} :
          /\ Started(t) => Succeeded("check_data_freshness")
          /\ (Succeeded("check_data_freshness") /\ taskState[t] = "none")
                => ENABLED TaskStarts(t)
    /\ Started("transform") =>
          Succeeded("extract_csv") /\ Succeeded("extract_api")
    /\ Started("load_to_warehouse") => Succeeded("transform")
    /\ Started("send_notification") => Succeeded("load_to_warehouse")

\* transform runs after extract_api succeeded at its second attempt while
\* extract_csv had already succeeded
C36_Witness ==
    /\ taskState["transform"] = "running"
    /\ tries["extract_api"] = 2
    /\ tries["extract_csv"] = 1
    /\ Succeeded("extract_csv")
    /\ Succeeded("extract_api")

(***************************************************************************)
(* Properties of ETLPipeline.transform, checked under SpecTf.               *)
(***************************************************************************)
\* transform was called and returned
Transformed == tfOp = "transform" /\ tfCalls = 1

\* the cells of the column of the given name in what transform returned
Handed(name) == Cells(TfOut, ColumnAt(TfOut, name))

\* the texts of the first column that are left after cleaning are dates
AllDates ==
    \A r \in DOMAIN tfGiven.rows : tfGiven.rows[r][1].v = "2024-01-01"

\* C35: transform applies its steps in one fixed order: clean, column-name
\* standardization, the configured type conversion, skipped when the map
\* is empty, and last the two run-metadata columns; hence the keys of the
\* type map are matched against the standardized column names, the
\* metadata columns are subject neither to cleaning nor to conversion,
\* and every row handed to load carries both metadata columns.
C35_TransformOrder ==
    Transformed =>
        /\ tfOuts[1].raised = "none"
        /\ ColumnAt(TfOut, LoadedAtColumn) # 0
        /\ ColumnAt(TfOut, BatchIdColumn) = Len(TfOut.cols)
        /\ \A r \in DOMAIN TfOut.rows :
              /\ Handed(LoadedAtColumn)[r] = LoadedAt
              /\ Handed(BatchIdColumn)[r] = BatchId
        /\ TfOut.cols[ColumnAt(TfOut, LoadedAtColumn)].dtype
              = "datetime64[ns]"
        /\ tfGiven.cols[1].name # LoadedAtColumn =>
              /\ ColumnAt(TfOut, LoadedAtColumn) = Len(TfOut.cols) - 1
              /\ TfOut.cols[1].name = <<"a">>
              /\ TfOut.cols[1].dtype =
                    IF MappedTo(<<"a">>) # {} /\ AllDates
                    THEN "datetime64[ns]"
                    ELSE "object"
              /\ \A r \in DOMAIN TfOut.rows :
                    TfOut.rows[r][1].t =
                       IF MappedTo(<<"a">>) # {} /\ AllDates
                       THEN "date"
                       ELSE "str"
        /\ Len(TfOut.rows) = Len(DropDuplicates(tfGiven.rows))

\* column A of the input, named in the type map by its standardized name
\* a only, was converted, and a null of column v was filled
C35_Witness ==
    /\ Transformed
    /\ tfGiven.cols[1].name = <<"A">>
    /\ MappedTo(<<"A">>) = {}
    /\ MappedTo(<<"a">>) = {"datetime"}
    /\ MappedTo(LoadedAtColumn) = {"int"}
    /\ Len(TfOut.rows) = 3
    /\ TfOut.cols[1].dtype = "datetime64[ns]"
    /\ \E r \in DOMAIN tfGiven.rows : tfGiven.rows[r][2].t = "null"
    /\ Len(TfOut.cols) = 4
    /\ \A r \in DOMAIN TfOut.rows : TfOut.rows[r][2].t = "num"

====
